---- MODULE Spec2Model ----
(***************************************************************************)
(* Telegram-Message-Reaction-Counter: the acquisition run of fetcher.py,   *)
(* its callers in web_app.py and main.py, and the sorts and filters of     *)
(* analyzer.py, as a state machine.                                        *)
(*                                                                         *)
(* Optional Python values are encoded as sequences: None is <<>> and a     *)
(* value v that is present is <<v>>.  A Python str is a sequence of code   *)
(* points, each named by a TLA+ string.  A datetime and the str that its   *)
(* isoformat() gives are records that differ in their ty field.            *)
(***************************************************************************)
EXTENDS Integers, Sequences, FiniteSets, TLC

\* ------------------------------------------------------------------ bounds

\* Messages one run can be delivered under Spec.
MaxStream == 3

\* Messages fetched for the analyzer of AnalyzerSpec.
MaxRecords == 3

\* Messages in a channel whose content is fixed before the run.
MaxScript == 3

\* Messages one run can be delivered under DateSpec and TermSpec.
MaxStreamDate == 11

\* Messages one run can be delivered under WebSpec (two interleaved runs).
MaxStreamWeb == 2

\* Sort and filter calls made on one analyzer under AnalyzerSpec.
MaxOps == 2

\* Resolution of the clock: a datetime is a number of ticks, and
\* timedelta(days=n) is n * TicksPerDay ticks.
TicksPerDay == 2

\* ------------------------------------------------------- program constants

\* fetcher.py:324  if skipped_out_of_range >= 10
OutOfRangeThreshold == 10

\* config.example.py:42
MAX_MESSAGES == 1000

\* config.example.py:46
MIN_REACTIONS == 5

\* config.example.py:50
MEDIA_ONLY == TRUE

\* web_app.py:353  limit = 10000
WebLimit == 10000

\* ------------------------------------------------------------ Python values

None == <<>>

Some(v) == <<v>>

\* bool(x) of an optional integer: None and 0 are falsy.
TruthyInt(o) == o # None /\ o[1] # 0

\* x if x is not None else d
OrDefault(o, d) == IF o # None THEN o[1] ELSE d

DateTime(d) == [ty |-> "datetime", t |-> d]

\* datetime.isoformat(): a str; it has no isoformat() of its own.
IsoFormat(dt) == [ty |-> "str", t |-> dt.t]

RECURSIVE SeqSum(_)
SeqSum(s) == IF s = <<>> THEN 0 ELSE s[1] + SeqSum(Tail(s))

Range(s) == {s[i] : i \in DOMAIN s}

\* str(n) for n >= 0, as a sequence of digit characters.
Digit(n) == <<"0", "1", "2", "3", "4", "5", "6", "7", "8", "9">>[n + 1]

RECURSIVE Str(_)
Str(n) == IF n < 10 THEN <<Digit(n)>> ELSE Str(n \div 10) \o <<Digit(n % 10)>>

\* str(n) for any integer n.
StrInt(n) == IF n < 0 THEN <<"-">> \o Str(0 - n) ELSE Str(n)

\* s.startswith(p)
StartsWith(s, p) == Len(s) >= Len(p) /\ SubSeq(s, 1, Len(p)) = p

\* s.endswith(p)
EndsWith(s, p) == Len(s) >= Len(p) /\ SubSeq(s, Len(s) - Len(p) + 1, Len(s)) = p

\* s[n:]
DropFirst(s, n) == IF Len(s) <= n THEN <<>> ELSE SubSeq(s, n + 1, Len(s))

Upper == <<"A", "B", "C", "D", "E", "F", "G", "H", "I", "J", "K", "L", "M",
           "N", "O", "P", "Q", "R", "S", "T", "U", "V", "W", "X", "Y", "Z">>

LowerLetters == <<"a", "b", "c", "d", "e", "f", "g", "h", "i", "j", "k", "l", "m",
                  "n", "o", "p", "q", "r", "s", "t", "u", "v", "w", "x", "y", "z">>

\* str.lower(), code point by code point.
LowerChar(c) ==
    IF \E i \in DOMAIN Upper : Upper[i] = c
    THEN LowerLetters[CHOOSE i \in DOMAIN Upper : Upper[i] = c]
    ELSE c

Lower(s) == [i \in DOMAIN s |-> LowerChar(s[i])]

\* ------------------------------------------------------- record normaliser

\* The str that names a custom emoji: f"[自定义:{document_id}]".
\* U81EA, U5B9A and U4E49 are the three CJK code points of the prefix.
CustomEmojiName(document_id) ==
    <<"[", "U81EA", "U5B9A", "U4E49", ":">> \o StrInt(document_id) \o <<"]">>

\* TelegramFetcher._get_reaction_info
GetReactionInfo(reaction) ==
    IF reaction.kind = "ReactionEmoji"
    THEN [emoji |-> reaction.emoticon, type |-> "standard", count |-> reaction.count]
    ELSE IF reaction.kind = "ReactionCustomEmoji"
    THEN [emoji |-> CustomEmojiName(reaction.document_id), type |-> "custom",
          count |-> reaction.count]
    ELSE [emoji |-> <<"U2753">>, type |-> "unknown", count |-> reaction.count]

ArchiveExts == {<<".", "z", "i", "p">>, <<".", "r", "a", "r">>, <<".", "7", "z">>,
                <<".", "t", "a", "r">>, <<".", "g", "z">>}

ExecutableExts == {<<".", "e", "x", "e">>, <<".", "m", "s", "i">>,
                   <<".", "a", "p", "k">>, <<".", "i", "p", "a">>}

VideoExts == {<<".", "m", "p", "4">>, <<".", "m", "k", "v">>, <<".", "a", "v", "i">>,
              <<".", "m", "o", "v">>, <<".", "w", "m", "v">>, <<".", "f", "l", "v">>}

AudioExts == {<<".", "m", "p", "3">>, <<".", "f", "l", "a", "c">>,
              <<".", "w", "a", "v">>, <<".", "a", "a", "c">>, <<".", "o", "g", "g">>}

DocumentExts == {<<".", "p", "d", "f">>, <<".", "d", "o", "c">>,
                 <<".", "d", "o", "c", "x">>, <<".", "t", "x", "t">>,
                 <<".", "e", "p", "u", "b">>}

ImageExts == {<<".", "j", "p", "g">>, <<".", "j", "p", "e", "g">>,
              <<".", "p", "n", "g">>, <<".", "g", "i", "f">>,
              <<".", "w", "e", "b", "p">>}

EndsWithAny(name, exts) == \E e \in exts : EndsWith(name, e)

\* The if/elif chain on the lower-cased file name; the document default stays
\* when no extension matches.
TypeOfFileName(file_name) ==
    LET name == Lower(file_name) IN
    IF EndsWithAny(name, ArchiveExts) THEN "archive"
    ELSE IF EndsWithAny(name, ExecutableExts) THEN "executable"
    ELSE IF EndsWithAny(name, VideoExts) THEN "video"
    ELSE IF EndsWithAny(name, AudioExts) THEN "audio"
    ELSE IF EndsWithAny(name, DocumentExts) THEN "document"
    ELSE IF EndsWithAny(name, ImageExts) THEN "image"
    ELSE "document"

\* Index of the first DocumentAttributeFilename among attrs, 0 when none.
FirstFilenameAttr(attrs) ==
    IF \E i \in DOMAIN attrs : attrs[i].cls = "DocumentAttributeFilename"
    THEN CHOOSE i \in DOMAIN attrs :
            /\ attrs[i].cls = "DocumentAttributeFilename"
            /\ \A j \in 1..(i - 1) : attrs[j].cls # "DocumentAttributeFilename"
    ELSE 0

\* Every message taken to carry a photo.
GetMediaInfo_AlwaysMedia(message) ==
    [has_media |-> TRUE, type |-> Some("photo"), filename |-> None, size |-> None]

\* TelegramFetcher._get_media_info.  message.media is None or Some(media);
\* media.document is None or Some(doc).  An unrecognised media class gives its
\* class name as the type.
GetMediaInfo(message) ==
    IF message.media = None
    THEN [has_media |-> FALSE, type |-> None, filename |-> None, size |-> None]
    ELSE LET media == message.media[1] IN
         IF media.cls = "MessageMediaDocument"
         THEN IF media.document = None
              THEN [has_media |-> TRUE, type |-> Some("document"),
                    filename |-> None, size |-> None]
              ELSE LET doc == media.document[1]
                       k == FirstFilenameAttr(doc.attributes)
                   IN IF k = 0
                      THEN [has_media |-> TRUE, type |-> Some("document"),
                            filename |-> None, size |-> Some(doc.size)]
                      ELSE [has_media |-> TRUE,
                            type |-> Some(TypeOfFileName(doc.attributes[k].file_name)),
                            filename |-> Some(doc.attributes[k].file_name),
                            size |-> Some(doc.size)]
         ELSE IF media.cls = "MessageMediaPhoto"
         THEN [has_media |-> TRUE, type |-> Some("photo"), filename |-> None,
               size |-> None]
         ELSE IF media.cls = "MessageMediaWebPage"
         THEN [has_media |-> TRUE, type |-> Some("webpage"), filename |-> None,
               size |-> None]
         ELSE [has_media |-> TRUE, type |-> Some(media.cls), filename |-> None,
               size |-> None]

\* TelegramFetcher._get_message_link.  A link is the sequence of the parts
\* its f-string concatenates.
GetMessageLink(channel_info, message_id) ==
    IF channel_info.username # None /\ channel_info.username[1] # <<>>
    THEN [tg_link |-> <<"tg://resolve?domain=", channel_info.username[1], "&post=",
                        message_id>>,
          web_link |-> <<"https://t.me/", channel_info.username[1], "/", message_id>>]
    ELSE LET channel_id == StrInt(channel_info.id[1])
             short_id == IF StartsWith(channel_id, <<"-", "1", "0", "0">>)
                         THEN DropFirst(channel_id, 4)
                         ELSE IF StartsWith(channel_id, <<"-">>)
                         THEN DropFirst(channel_id, 1)
                         ELSE channel_id
         IN [tg_link |-> <<"tg://privatepost?channel=", short_id, "&post=", message_id>>,
             web_link |-> <<"https://t.me/c/", short_id, "/", message_id>>]

\* The channel_info dict get_channel builds from the resolved entity.
ChannelInfoOf(entity) ==
    IF entity.cls = "Channel"
    THEN [id |-> Some(entity.id), title |-> entity.title, username |-> entity.username,
          is_channel |-> entity.broadcast]
    ELSE IF entity.cls = "Chat"
    THEN [id |-> Some(entity.id), title |-> entity.title, username |-> None,
          is_channel |-> FALSE]
    ELSE [id |-> Some(entity.id), title |-> entity.title, username |-> entity.username,
          is_channel |-> FALSE]

\* The msg_data dict of one accepted message.  engagement_rate and
\* selected_emoji_count are the keys the sorts add later; None: key absent.
BuildRecord(message, media_info, reactions, total_reactions, channel_info) ==
    [id |-> message.id,
     date |-> message.date,
     text |-> OrDefault(message.text, <<>>),
     media |-> media_info,
     reactions |-> reactions,
     total_reactions |-> total_reactions,
     views |-> message.views,
     forwards |-> message.forwards,
     replies |-> OrDefault(message.replies, 0),
     link |-> GetMessageLink(channel_info, message.id),
     engagement_rate |-> None,
     selected_emoji_count |-> None]

\* A total that counts the reactions' kinds, not their counts.
TotalOf_Kinds(reactions) == Len(reactions)

\* for r in message.reactions.results: ... total_reactions += reaction_info['count']
RECURSIVE TotalOf(_)
TotalOf(reactions) ==
    IF reactions = <<>> THEN 0
    ELSE reactions[1].count + TotalOf(Tail(reactions))

\* The arguments of fetch_messages after its defaults are applied
\* (limit None: unlimited; limit 0: config.MAX_MESSAGES).
EffectiveArgs(a, cfg) ==
    [limit |-> IF a.limit = None THEN None
               ELSE IF a.limit[1] = 0 THEN Some(cfg.MAX_MESSAGES)
               ELSE a.limit,
     min_reactions |-> OrDefault(a.min_reactions, cfg.MIN_REACTIONS),
     media_only |-> OrDefault(a.media_only, cfg.MEDIA_ONLY),
     offset_date |-> a.offset_date,
     end_date |-> a.end_date]

\* The locals of fetch_messages before its loop.
InitLocals ==
    [messages_data |-> <<>>, processed |-> 0, skipped_no_reactions |-> 0,
     skipped_no_media |-> 0, skipped_out_of_range |-> 0]

\* if offset_date and message.date < offset_date
OutOfRange(message, a) ==
    a.offset_date # None /\ message.date.t < a.offset_date[1].t

BoundaryReached_Late(skipped_out_of_range) ==
    skipped_out_of_range > OutOfRangeThreshold

\* if skipped_out_of_range >= 10
BoundaryReached(skipped_out_of_range) == skipped_out_of_range >= OutOfRangeThreshold

BelowThreshold_Inclusive(total_reactions, min_reactions) ==
    total_reactions <= min_reactions

\* if total_reactions < min_reactions
BelowThreshold(total_reactions, min_reactions) == total_reactions < min_reactions

\* if processed % config.BATCH_SIZE == 0
BatchDue(processed, cfg) == processed % cfg.BATCH_SIZE = 0

\* One iteration of the async-for body on a delivered message: the locals
\* after it, and how it leaves the body (continue, break, or the batch sleep).
\* l: locals, a: effective arguments, cfg: config, channel_info: the
\* fetcher's channel_info when the body runs.
LoopBody(l, a, cfg, message, channel_info) ==
    LET processed == l.processed + 1
        counted == [l EXCEPT !.processed = processed]
    IN
    IF OutOfRange(message, a)
    THEN LET skipped == l.skipped_out_of_range + 1 IN
         [locals |-> [counted EXCEPT !.skipped_out_of_range = skipped],
          ctl |-> IF BoundaryReached(skipped) THEN "break" ELSE "continue"]
    ELSE IF message.reactions = None
    THEN [locals |-> [counted EXCEPT !.skipped_no_reactions = @ + 1],
          ctl |-> "continue"]
    ELSE LET media_info == GetMediaInfo(message) IN
         IF a.media_only /\ ~media_info.has_media
         THEN [locals |-> [counted EXCEPT !.skipped_no_media = @ + 1],
               ctl |-> "continue"]
         ELSE LET results == message.reactions[1]
                  reactions == [i \in DOMAIN results |-> GetReactionInfo(results[i])]
                  total_reactions == TotalOf(reactions)
              IN IF BelowThreshold(total_reactions, a.min_reactions)
                 THEN [locals |-> [counted EXCEPT !.skipped_no_reactions = @ + 1],
                       ctl |-> "continue"]
                 ELSE [locals |->
                          [counted EXCEPT !.messages_data =
                              Append(@, BuildRecord(message, media_info, reactions,
                                                    total_reactions, channel_info))],
                       ctl |-> IF BatchDue(processed, cfg) THEN "sleep" ELSE "continue"]

\* The message the iterator yields for a shape: ids number the deliveries.
Message(sh, id) ==
    [id |-> id, date |-> sh.date, text |-> sh.text, media |-> sh.media,
     reactions |-> sh.reactions, views |-> sh.views, forwards |-> sh.forwards,
     replies |-> sh.replies]

LimitAt_Never(n, a) == FALSE

\* limit messages have been yielded (limit None: never).
LimitAt(n, a) == a.limit # None /\ n >= a.limit[1]

\* The async for of fetch_messages run without an exception over the channel
\* content `stream` from its message i on: messages_data when the loop ends.
RECURSIVE RunLoop(_, _, _, _, _, _)
RunLoop(l, stream, i, a, cfg, channel_info) ==
    IF i > Len(stream) \/ LimitAt(i - 1, a) THEN l.messages_data
    ELSE LET step == LoopBody(l, a, cfg, Message(stream[i], i), channel_info) IN
         IF step.ctl = "break" THEN step.locals.messages_data
         ELSE RunLoop(step.locals, stream, i + 1, a, cfg, channel_info)

\* What fetch_messages returns for a channel content when nothing is raised.
FetchAll(stream, a, cfg, channel_info) ==
    RunLoop(InitLocals, stream, 1, a, cfg, channel_info)

\* ------------------------------------------------------------------- sorting

\* sorted(): a stable sort.  before[i][j]: element i has to precede element j
\* (a strict comparison of their keys).  InsertStable puts index x, which
\* follows the indices of `order` in the input, behind every index it does not
\* strictly precede, so equal keys keep their input order (also with
\* reverse=True, which Python implements so that stability is kept).
RECURSIVE InsertStable(_, _, _)
InsertStable(order, x, before) ==
    IF order = <<>> THEN <<x>>
    ELSE IF before[x][order[1]] THEN <<x>> \o order
    ELSE <<order[1]>> \o InsertStable(Tail(order), x, before)

RECURSIVE StableOrder(_, _)
StableOrder(n, before) ==
    IF n = 0 THEN <<>>
    ELSE InsertStable(StableOrder(n - 1, before), n, before)

\* sorted(s, key=..., reverse=...) for integer keys: keys[i] is the key of s[i].
SortedByKey(s, keys, reverse) ==
    LET before == [i \in DOMAIN s |-> [j \in DOMAIN s |->
                      IF reverse THEN keys[i] > keys[j] ELSE keys[i] < keys[j]]]
        order == StableOrder(Len(s), before)
    IN [k \in DOMAIN s |-> s[order[k]]]

Reverse(s) == [i \in DOMAIN s |-> s[Len(s) + 1 - i]]

\* A descending sort made of the ascending sort turned round: equal keys
\* come out in the opposite of their input order.
SortByReactions_TurnedRound(messages, reverse) ==
    LET keys == [i \in DOMAIN messages |-> messages[i].total_reactions] IN
    IF reverse THEN Reverse(SortedByKey(messages, keys, FALSE))
    ELSE SortedByKey(messages, keys, FALSE)

\* MessageAnalyzer.sort_by_reactions
SortByReactions(messages, reverse) ==
    SortedByKey(messages, [i \in DOMAIN messages |-> messages[i].total_reactions],
                reverse)

\* MessageAnalyzer.sort_by_views: m.get('views') drops None and 0.
SortByViews(messages, reverse) ==
    LET messages_with_views == SelectSeq(messages, LAMBDA m : TruthyInt(m.views))
    IN SortedByKey(messages_with_views,
                   [i \in DOMAIN messages_with_views |->
                       OrDefault(messages_with_views[i].views, 0)],
                   reverse)

\* msg['engagement_rate'] = (msg['total_reactions'] / msg['views']) * 100, kept
\* as the exact fraction num/den (den > 0).
EngagementRate(m) == [num |-> m.total_reactions * 100, den |-> m.views[1]]

\* A comparison of the reaction totals alone.
RateLess_ByReactions(x, y) == x.num < y.num

\* x < y for two rates.
RateLess(x, y) == x.num * y.den < y.num * x.den

HasPositiveViews(m) == TruthyInt(m.views) /\ m.views[1] > 0

\* self.messages after sort_by_engagement_rate: the rate is written onto the
\* dicts of the messages with views, which self.messages shares.
WithEngagementRate(messages) ==
    [i \in DOMAIN messages |->
        IF HasPositiveViews(messages[i])
        THEN [messages[i] EXCEPT !.engagement_rate = Some(EngagementRate(messages[i]))]
        ELSE messages[i]]

\* MessageAnalyzer.sort_by_engagement_rate: the list it returns.
SortByEngagementRate(messages, reverse) ==
    LET messages_with_views == SelectSeq(WithEngagementRate(messages), HasPositiveViews)
        rate(i) == messages_with_views[i].engagement_rate[1]
        before == [i \in DOMAIN messages_with_views |->
                      [j \in DOMAIN messages_with_views |->
                          IF reverse THEN RateLess(rate(j), rate(i))
                          ELSE RateLess(rate(i), rate(j))]]
        order == StableOrder(Len(messages_with_views), before)
    IN [k \in DOMAIN messages_with_views |-> messages_with_views[order[k]]]

\* MessageAnalyzer.sort_by_replies
SortByReplies(messages, reverse) ==
    SortedByKey(messages, [i \in DOMAIN messages |-> messages[i].replies], reverse)

\* ------------------------------------------------------ selected-emoji sort

\* unicodedata.normalize('NFC', e) on the code points of the model: the only
\* canonical composition among them is e + U0301 (combining acute) -> U00E9.
RECURSIVE NFC(_)
NFC(e) ==
    IF e = <<>> THEN <<>>
    ELSE IF Len(e) >= 2 /\ e[1] = "e" /\ e[2] = "U0301"
    THEN <<"U00E9">> \o NFC(DropFirst(e, 2))
    ELSE <<e[1]>> \o NFC(Tail(e))

\* str.replace(c, '') for the three code points normalize_emoji removes.
RemoveSelectors(e) == SelectSeq(e, LAMBDA c : c \notin {"UFE0E", "UFE0F", "U200D"})

\* str.strip(): white space off both ends.
RECURSIVE LStrip(_)
LStrip(e) == IF e # <<>> /\ e[1] = " " THEN LStrip(Tail(e)) ELSE e

RECURSIVE RStrip(_)
RStrip(e) ==
    IF e # <<>> /\ e[Len(e)] = " " THEN RStrip(SubSeq(e, 1, Len(e) - 1)) ELSE e

Strip(e) == RStrip(LStrip(e))

\* _sort_by_emojis.normalize_emoji
normalize_emoji(e) ==
    IF e = <<>> THEN <<>>
    ELSE Strip(RemoveSelectors(NFC(e)))

\* _sort_by_emojis.get_emoji_base
get_emoji_base(e) ==
    IF e = <<>> THEN <<>>
    ELSE LET cleaned == normalize_emoji(e) IN
         IF Len(cleaned) > 0
         THEN IF Len(cleaned) = 1 THEN <<cleaned[1]>> ELSE SubSeq(cleaned, 1, 2)
         ELSE cleaned

\* emoji_set: the normalized and the raw form of every selected emoji.
EmojiSet(emojis) ==
    {normalize_emoji(emojis[i]) : i \in DOMAIN emojis} \cup Range(emojis)

\* emoji_base_set
EmojiBaseSet(emojis) == {get_emoji_base(emojis[i]) : i \in DOMAIN emojis}

ReactionMatches(r, emojis) ==
    \/ r.emoji \in EmojiSet(emojis)
    \/ normalize_emoji(r.emoji) \in EmojiSet(emojis)
    \/ get_emoji_base(r.emoji) \in EmojiBaseSet(emojis)

\* _sort_by_emojis.get_emoji_count
RECURSIVE CountMatching(_, _)
CountMatching(reactions, emojis) ==
    IF reactions = <<>> THEN 0
    ELSE (IF ReactionMatches(reactions[1], emojis) THEN reactions[1].count ELSE 0)
         + CountMatching(Tail(reactions), emojis)

get_emoji_count(msg, emojis) == CountMatching(msg.reactions, emojis)

\* The count added to the one a message already carries.
WithSelectedEmojiCount_Adding(messages, emojis) ==
    [i \in DOMAIN messages |->
        [messages[i] EXCEPT !.selected_emoji_count =
            Some(OrDefault(@, 0) + get_emoji_count(messages[i], emojis))]]

\* The messages after _sort_by_emojis wrote selected_emoji_count onto each.
WithSelectedEmojiCount(messages, emojis) ==
    [i \in DOMAIN messages |->
        [messages[i] EXCEPT !.selected_emoji_count =
            Some(get_emoji_count(messages[i], emojis))]]

\* TelegramManager._sort_by_emojis: the list it returns.
SortByEmojis(messages, emojis) ==
    LET counted == WithSelectedEmojiCount(messages, emojis)
    IN SortedByKey(counted,
                   [i \in DOMAIN counted |-> OrDefault(counted[i].selected_emoji_count, 0)],
                   TRUE)

\* ------------------------------------------------------------------ filters

\* source = messages or self.messages: an empty list given as the argument is
\* falsy, and self.messages is filtered instead.
FilterSource(messages_arg, self_messages) ==
    IF messages_arg # None /\ messages_arg[1] # <<>> THEN messages_arg[1]
    ELSE self_messages

\* MessageAnalyzer.filter_by_media_type
FilterByMediaType(self_messages, media_types, messages_arg) ==
    SelectSeq(FilterSource(messages_arg, self_messages),
              LAMBDA m : m.media.has_media /\ m.media.type # None
                         /\ m.media.type[1] \in media_types)

\* The bounds taken as exclusive: a message dated exactly start_date or
\* end_date is dropped.
FilterByDateRange_Exclusive(self_messages, start_date, end_date, days, now, messages_arg) ==
    LET source == FilterSource(messages_arg, self_messages)
        use_days == TruthyInt(days)
        end == IF use_days THEN Some(now) ELSE end_date
        start == IF use_days THEN Some(DateTime(now.t - days[1] * TicksPerDay))
                 ELSE start_date
    IN SelectSeq(source,
                 LAMBDA msg : /\ ~(start # None /\ msg.date.t <= start[1].t)
                              /\ ~(end # None /\ msg.date.t >= end[1].t))

\* MessageAnalyzer.filter_by_date_range.  now: what datetime.now() gives when
\* days is used; days of 0 or None leaves the given bounds in force.
FilterByDateRange(self_messages, start_date, end_date, days, now, messages_arg) ==
    LET source == FilterSource(messages_arg, self_messages)
        use_days == TruthyInt(days)
        end == IF use_days THEN Some(now) ELSE end_date
        start == IF use_days THEN Some(DateTime(now.t - days[1] * TicksPerDay))
                 ELSE start_date
    IN SelectSeq(source,
                 LAMBDA msg : /\ ~(start # None /\ msg.date.t < start[1].t)
                              /\ ~(end # None /\ msg.date.t > end[1].t))

\* k in s, for strs as sequences of code points.
Contains(s, k) ==
    \E i \in 0..(Len(s) - Len(k)) : SubSeq(s, i + 1, i + Len(k)) = k

\* MessageAnalyzer.filter_by_keyword
FilterByKeyword(self_messages, keywords, case_sensitive, messages_arg) ==
    LET source == FilterSource(messages_arg, self_messages)
        kws == IF case_sensitive THEN keywords
               ELSE [i \in DOMAIN keywords |-> Lower(keywords[i])]
        search_text(msg) ==
            LET text == msg.text
                filename == OrDefault(msg.media.filename, <<>>)
            IN IF case_sensitive THEN text \o <<" ">> \o filename
               ELSE Lower(text) \o <<" ">> \o Lower(filename)
    IN SelectSeq(source,
                 LAMBDA msg : \E i \in DOMAIN kws : Contains(search_text(msg), kws[i]))

\* ------------------------------------------------------------------ summary

SeqMin(s) == CHOOSE x \in Range(s) : \A y \in Range(s) : x <= y

SeqMax(s) == CHOOSE x \in Range(s) : \A y \in Range(s) : x >= y

Min(a, b) == IF a <= b THEN a ELSE b

\* sorted_emojis[:10]
TopEmojis == 10

\* The reactions of all messages, in the order the two loops visit them.
RECURSIVE AllReactions(_)
AllReactions(messages) ==
    IF messages = <<>> THEN <<>>
    ELSE messages[1].reactions \o AllReactions(Tail(messages))

\* The keys of emoji_counts in the order they were first added: the
\* r['emoji'] strings as they are.
RECURSIVE FirstSeen(_)
FirstSeen(reactions) ==
    IF reactions = <<>> THEN <<>>
    ELSE LET before == FirstSeen(SubSeq(reactions, 1, Len(reactions) - 1))
             emoji == reactions[Len(reactions)].emoji
         IN IF \E i \in DOMAIN before : before[i] = emoji THEN before
            ELSE Append(before, emoji)

\* MessageAnalyzer.get_reaction_statistics; a dict is the sequence of its
\* items in insertion order.
ReactionStatistics(messages) ==
    LET reactions == AllReactions(messages)
        keys == FirstSeen(reactions)
        with(e) == SelectSeq(reactions, LAMBDA r : r.emoji = e)
        emoji_counts == [i \in DOMAIN keys |->
                            [emoji |-> keys[i],
                             count |-> SeqSum([k \in DOMAIN with(keys[i]) |->
                                                  with(keys[i])[k].count])]]
        sorted_emojis == SortedByKey(emoji_counts,
                                     [i \in DOMAIN emoji_counts |-> emoji_counts[i].count],
                                     TRUE)
    IN [emoji_counts |-> sorted_emojis,
        top_emojis |-> SubSeq(sorted_emojis, 1, Min(TopEmojis, Len(sorted_emojis))),
        total_reactions |-> SeqSum([i \in DOMAIN emoji_counts |-> emoji_counts[i].count]),
        unique_emojis |-> Len(emoji_counts)]

\* MessageAnalyzer.get_media_statistics: per media type (the key 'unknown'
\* standing in for a type that is None) the number of messages with media and
\* the sum of their total_reactions.
MediaStatistics(messages) ==
    LET with_media == {i \in DOMAIN messages : messages[i].media.has_media}
        mtype(i) == OrDefault(messages[i].media.type, "unknown")
        keys == {mtype(i) : i \in with_media}
        of(k) == SelectSeq(messages, LAMBDA m : m.media.has_media
                                               /\ OrDefault(m.media.type, "unknown") = k)
    IN [type_counts |-> [k \in keys |-> Len(of(k))],
        type_reactions |-> [k \in keys |->
                               SeqSum([i \in DOMAIN of(k) |-> of(k)[i].total_reactions])]]

\* MessageAnalyzer.generate_summary: the totals, the date range and the top
\* message; an empty self.messages gives the dict that holds only 'message'.
GenerateSummary(messages) ==
    IF messages = <<>> THEN [message |-> "no message data"]
    ELSE LET top_message == SortByReactions(messages, TRUE)[1]
             dates == [i \in DOMAIN messages |-> messages[i].date.t]
         IN [total_messages |-> Len(messages),
             total_reactions |-> SeqSum([i \in DOMAIN messages |->
                                            messages[i].total_reactions]),
             total_views |-> SeqSum([i \in DOMAIN messages |->
                                        OrDefault(messages[i].views, 0)]),
             date_range |-> [start |-> Some(DateTime(SeqMin(dates))),
                             end |-> Some(DateTime(SeqMax(dates)))],
             top_message |-> [id |-> top_message.id,
                              reactions |-> top_message.total_reactions,
                              link |-> top_message.link]]

\* ------------------------------------------------------------- the callers

\* sorted_messages of _analyze_async (web_app.py) and of run_analysis
\* (main.py): selected emojis first (web only), then the sort_by mode.
SortFor(req, messages) ==
    IF req.via = "web" /\ req.emojis # <<>> THEN SortByEmojis(messages, req.emojis)
    ELSE IF req.sort_by = "views" THEN SortByViews(messages, TRUE)
    ELSE IF req.sort_by = "engagement" THEN SortByEngagementRate(messages, TRUE)
    ELSE SortByReactions(messages, TRUE)

\* The dicts of `messages` after the sort of SortFor wrote its derived key
\* onto them (the lists share their dicts).
MutatedBySort(req, messages) ==
    IF req.via = "web" /\ req.emojis # <<>>
    THEN WithSelectedEmojiCount(messages, req.emojis)
    ELSE IF req.sort_by = "engagement"
    THEN WithEngagementRate(messages)
    ELSE messages

\* _analyze_async: start_date and end_date from days, date_from and date_to.
\* An ISO string is a str record; fromisoformat raises on one whose t is 0,
\* and the bare except leaves what was assigned before.
DateWindow(req, now) ==
    IF req.days = 0 - 1 /\ req.date_from # None
    THEN IF req.date_from[1].t = 0 THEN [start |-> None, end |-> None]
         ELSE IF req.date_to = None
         THEN [start |-> Some(DateTime(req.date_from[1].t)), end |-> None]
         ELSE IF req.date_to[1].t = 0
         THEN [start |-> Some(DateTime(req.date_from[1].t)), end |-> None]
         ELSE [start |-> Some(DateTime(req.date_from[1].t)),
               \* replace(hour=23, minute=59, second=59): the day's last tick
               end |-> Some(DateTime(req.date_to[1].t + TicksPerDay - 1))]
    ELSE IF req.days > 0
    THEN [start |-> Some(DateTime(now.t - req.days * TicksPerDay)), end |-> Some(now)]
    ELSE [start |-> None, end |-> None]

\* The arguments the caller passes to fetch_messages.
FetchCall(req, now) ==
    IF req.via = "web"
    THEN LET w == DateWindow(req, now) IN
         [limit |-> Some(WebLimit), min_reactions |-> Some(req.min_reactions),
          media_only |-> Some(req.media_only), offset_date |-> w.start,
          end_date |-> w.end]
    ELSE [limit |-> Some(req.limit), min_reactions |-> Some(req.min_reactions),
          media_only |-> Some(~req.no_media), offset_date |-> None, end_date |-> None]

\* sorted_messages[:100]
FirstHundred(s) == IF Len(s) <= 100 THEN s ELSE SubSeq(s, 1, 100)

\* for msg in sorted_messages: if msg.get('date'): msg['date'] = msg['date'].isoformat()
DatesToIso(messages) ==
    [i \in DOMAIN messages |-> [messages[i] EXCEPT !.date = IsoFormat(@)]]

\* stats['date_range'] with start and end converted, when the summary has one.
StatsToIso(stats) ==
    IF "date_range" \in DOMAIN stats
    THEN [stats EXCEPT !.date_range =
            [start |-> IF @.start # None THEN Some(IsoFormat(@.start[1])) ELSE None,
             end |-> IF @.end # None THEN Some(IsoFormat(@.end[1])) ELSE None]]
    ELSE stats

\* _analyze_async after fetch_messages returned `messages`: the task_progress
\* dict it assigns.  channel_info: self.fetcher.channel_info at that moment.
WebResult(req, messages, channel_info) ==
    IF messages = <<>>
    THEN [status |-> "error", progress |-> 0, message |-> <<"no_messages">>,
          data |-> None]
    ELSE LET sorted_messages == SortFor(req, messages)
             stats == GenerateSummary(MutatedBySort(req, messages))
             converted == DatesToIso(sorted_messages)
         IN [status |-> "completed", progress |-> 100, message |-> <<"completed">>,
             data |-> Some([messages |-> FirstHundred(converted),
                            all_messages |-> converted,
                            stats |-> StatsToIso(stats),
                            channel_info |-> channel_info,
                            total_count |-> Len(converted)])]

\* run_analysis (main.py) after fetch_messages returned `messages`: the
\* requested filters in sequence, each given the list the one before left;
\* then the sort and the summary.
CliFiltered(req, messages, now) ==
    LET byType == IF req.filter_type # None /\ req.filter_type[1] # {}
                  THEN FilterByMediaType(messages, req.filter_type[1], Some(messages))
                  ELSE messages
        byKeyword == IF req.keyword # None /\ req.keyword[1] # <<>>
                     THEN FilterByKeyword(messages, req.keyword[1], FALSE, Some(byType))
                     ELSE byType
    IN IF TruthyInt(req.days)
       THEN FilterByDateRange(messages, None, None, req.days, now, Some(byKeyword))
       ELSE byKeyword

CliResult(req, messages, now) ==
    IF messages = <<>>
    THEN [status |-> "no_messages", messages |-> <<>>, stats |-> None]
    ELSE LET filtered_messages == CliFiltered(req, messages, now) IN
         IF filtered_messages = <<>>
         THEN [status |-> "filtered_empty", messages |-> <<>>, stats |-> None]
         ELSE [status |-> "completed",
               messages |-> SortFor(req, filtered_messages),
               stats |-> Some(GenerateSummary(MutatedBySort(req, filtered_messages)))]

\* ------------------------------------------------------------- the platform

Runs == {1, 2}

Alpha == <<"a", "l", "p", "h", "a">>

\* client.get_entity(target) for the targets that resolve: a public broadcast
\* channel and a basic group without a user name.
EntityOf(target) ==
    IF target = "alpha"
    THEN [cls |-> "Channel", id |-> 1001, title |-> "Alpha", username |-> Some(Alpha),
          broadcast |-> TRUE]
    ELSE [cls |-> "Chat", id |-> 77, title |-> "Beta", username |-> None,
          broadcast |-> FALSE]

Resolvable == {"alpha", "beta"}

\* datetime.now() during a run.
Now == DateTime(3 * TicksPerDay)

\* Ticks of a message older than one day before Now, and of one within it.
OldTick == Now.t - TicksPerDay - 1

RecentTick == Now.t - 1

ThumbsUp == <<"U1F44D">>

RedHeart == <<"U2764", "UFE0F">>

Emoji(emoticon, count) ==
    [kind |-> "ReactionEmoji", emoticon |-> emoticon, document_id |-> 0, count |-> count]

CustomEmoji(document_id, count) ==
    [kind |-> "ReactionCustomEmoji", emoticon |-> <<>>, document_id |-> document_id,
     count |-> count]

Photo == Some([cls |-> "MessageMediaPhoto", document |-> None])

\* A message as the platform holds it, before the iterator numbers it.
Shape(t, reactions, media, views, text) ==
    [date |-> DateTime(t), text |-> text, media |-> media, reactions |-> reactions,
     views |-> views, forwards |-> None, replies |-> None]

\* message.reactions.results of a message with 2 and with 5 reactions.
TwoReactions == <<Emoji(ThumbsUp, 2)>>

FiveReactions == <<Emoji(ThumbsUp, 3), Emoji(RedHeart, 2)>>

\* What a channel can hold under Spec: recent messages without reactions,
\* with an empty results list, with 2 and with 5 reactions, with and without
\* media, and old messages.
FetchShapes ==
    {Shape(RecentTick, None, Photo, Some(10), None),
     Shape(RecentTick, Some(<<>>), Photo, Some(10), None),
     Shape(RecentTick, Some(TwoReactions), Photo, Some(10), None),
     Shape(RecentTick, Some(TwoReactions), None, Some(10), None),
     Shape(RecentTick, Some(FiveReactions), Photo, Some(10), None),
     Shape(RecentTick, Some(FiveReactions), None, Some(10), None),
     Shape(OldTick, Some(FiveReactions), Photo, Some(10), None),
     Shape(OldTick, None, None, Some(10), None)}

\* What a channel can hold under DateSpec: qualifying messages that differ
\* in their date only.
DateShapes ==
    {Shape(t, Some(<<Emoji(ThumbsUp, 5)>>), Photo, Some(10), None) :
        t \in {OldTick, RecentTick}}

\* ------------------------------------------------------------------- state

VARIABLES
    config,         \* the config module
    fetcher,        \* the TelegramFetcher: [channel, channel_info]
    task_progress,  \* TelegramManager.task_progress
    pc,             \* per run: where its coroutine is suspended
    req,            \* per run: the request (web) or the parsed arguments (cli)
    fargs,          \* per run: the arguments of its fetch_messages call
    source,         \* per run: the entity its iterator was created for
    script,         \* per run: the content of its channel, None when left open
    delivered,      \* per run: the messages its iterator has yielded
    locals,         \* per run: the locals of fetch_messages
    fetch_end,      \* per run: how fetch_messages ended
    returned,       \* per run: the list fetch_messages returned, None if none
    outcome,        \* per run: what its caller ended with
    analysis,       \* a MessageAnalyzer and the list its last call returned
    manager,        \* the TelegramManager's login state and the clients it created
    call            \* a function called on its own: its name, arguments, result

vars == <<config, fetcher, task_progress, pc, req, fargs, source, script, delivered,
          locals, fetch_end, returned, outcome, analysis, call, manager>>

NoReq == [via |-> "none"]

IdleProgress == [status |-> "idle", progress |-> 0, message |-> <<>>, data |-> None]

DefaultConfig(batch_size) ==
    [MAX_MESSAGES |-> MAX_MESSAGES, MIN_REACTIONS |-> MIN_REACTIONS,
     MEDIA_ONLY |-> MEDIA_ONLY, BATCH_SIZE |-> batch_size]

NoArgs ==
    [limit |-> None, min_reactions |-> 0, media_only |-> FALSE, offset_date |-> None,
     end_date |-> None]

Pending == [status |-> "pending"]

\* MessageAnalyzer(messages) before any call: self.messages,
\* self.sorted_messages, and of the last call its name, its reverse flag, the
\* list it worked on, the messages argument it was given (filters only; None
\* when left out), the emojis it was given (the selected-emoji sort only) and
\* the list it returned (None: no call yet).
NewAnalyzer(messages) ==
    [messages |-> messages, sorted_messages |-> <<>>, op |-> "none", reverse |-> FALSE,
     input |-> <<>>, arg |-> None, emojis |-> <<>>, result |-> None, calls |-> 0]

\* The state after construction: no run started, the requests of the runs
\* to come being reqs, with config.BATCH_SIZE as given.
\* TelegramManager.__init__: the fields of the manager, with the clients it
\* has created so far (a client is named by its place in `clients`) and the
\* session files on disk that hold an authorized key.
NewManager(files) ==
    [client |-> None, fetcher |-> None, phone |-> None, phone_code_hash |-> None,
     is_logged_in |-> FALSE, user_info |-> None, clients |-> <<>>, files |-> files]

InitRuns(reqs, scripts, batch_sizes) ==
    /\ manager = NewManager({})
    /\ config \in {DefaultConfig(b) : b \in batch_sizes}
    /\ fetcher = [channel |-> None, channel_info |-> None]
    /\ task_progress = IdleProgress
    /\ pc = [r \in Runs |-> "idle"]
    /\ req \in reqs
    /\ fargs = [r \in Runs |-> NoArgs]
    /\ source = [r \in Runs |-> None]
    /\ script \in scripts
    /\ delivered = [r \in Runs |-> <<>>]
    /\ locals = [r \in Runs |-> InitLocals]
    /\ fetch_end = [r \in Runs |-> "none"]
    /\ returned = [r \in Runs |-> None]
    /\ outcome = [r \in Runs |-> Pending]

\* No function has been called on its own: name, arguments, what it returned.
NoCall == [fn |-> "none", args |-> <<>>, result |-> None]

\* No analyzer is made apart from the ones the runs make for themselves.
InitWith(reqs, scripts, batch_sizes) ==
    /\ InitRuns(reqs, scripts, batch_sizes)
    /\ analysis = NewAnalyzer(<<>>)
    /\ call = NoCall

\* ----------------------------------------------------------------- actions

\* iter_messages(limit=iter_limit) has yielded iter_limit messages.
LimitReached(r) == LimitAt(Len(delivered[r]), fargs[r])

\* The channel of a run holds script[r] when that is given (Some), and any
\* messages of the shapes otherwise: the next message the iterator yields.
NextInChannel(r, sh) ==
    IF script[r] = None THEN TRUE
    ELSE /\ Len(delivered[r]) < Len(script[r][1])
         /\ sh = script[r][1][Len(delivered[r]) + 1]

\* No message is left in the channel of a run.
ChannelDrained(r) ==
    IF script[r] = None THEN TRUE ELSE Len(delivered[r]) >= Len(script[r][1])

\* iter_messages(offset_date=end_date) yields only messages older than end_date.
InIteratorRange(sh, a) ==
    IF a.end_date = None THEN TRUE ELSE sh.date.t < a.end_date[1].t

\* progress_callback of _analyze_async: it writes into the dict that
\* task_progress names at that moment.  int((processed / 1000) * 60) is
\* taken as the floor of the exact quotient.
ProgressCallback(tp, processed, valid) ==
    [tp EXCEPT !.message = <<"processed", processed, valid>>,
               !.progress = 20 + Min((processed * 60) \div 1000, 60)]

\* The route /api/analyze with TelegramManager.start_analysis (the run is
\* scheduled on the loop), or run_analysis of main.py up to its await of
\* get_channel.
Start(r) ==
    /\ pc[r] = "idle"
    /\ req[r].via \in {"web", "cli"}
    /\ IF req[r].via = "web"
       THEN /\ task_progress' = [status |-> "running", progress |-> 0,
                                 message |-> <<"initialising">>, data |-> None]
            /\ pc' = [pc EXCEPT ![r] = "scheduled"]
       ELSE /\ pc' = [pc EXCEPT ![r] = "resolving"]
            /\ UNCHANGED task_progress
    /\ UNCHANGED <<manager, call, analysis, config, fetcher, req, fargs, source, script, delivered, locals, fetch_end,
                   returned, outcome>>

\* _analyze_async from its first line to the await inside get_channel.
Begin(r) ==
    /\ pc[r] = "scheduled"
    /\ task_progress' = [task_progress EXCEPT !.message = <<"resolving">>,
                                              !.progress = 10]
    /\ pc' = [pc EXCEPT ![r] = "resolving"]
    /\ UNCHANGED <<manager, call, analysis, config, fetcher, req, fargs, source, script, delivered, locals, fetch_end,
                   returned, outcome>>

\* The caller gives up with the words it has for a fetch without messages.
ResolveFail_LikeNoMessages(r) ==
    /\ pc[r] = "resolving"
    /\ pc' = [pc EXCEPT ![r] = "done"]
    /\ IF req[r].via = "web"
       THEN LET tp == [status |-> "error", progress |-> 0,
                       message |-> <<"no_messages">>, data |-> None]
            IN /\ task_progress' = tp
               /\ outcome' = [outcome EXCEPT ![r] = tp]
       ELSE /\ outcome' = [outcome EXCEPT ![r] =
                              [status |-> "no_messages", messages |-> <<>>,
                               stats |-> None]]
            /\ UNCHANGED task_progress
    /\ UNCHANGED <<manager, call, analysis, config, fetcher, req, fargs, source, script, delivered, locals, fetch_end,
                   returned>>

\* get_entity raised: get_channel returns False and the caller gives up.
ResolveFail(r) ==
    /\ pc[r] = "resolving"
    /\ pc' = [pc EXCEPT ![r] = "done"]
    /\ IF req[r].via = "web"
       THEN LET tp == [status |-> "error", progress |-> 0,
                       message |-> <<"no_channel">>, data |-> None]
            IN /\ task_progress' = tp
               /\ outcome' = [outcome EXCEPT ![r] = tp]
       ELSE /\ outcome' = [outcome EXCEPT ![r] =
                              [status |-> "no_channel", messages |-> <<>>,
                               stats |-> None]]
            /\ UNCHANGED task_progress
    /\ UNCHANGED <<manager, call, analysis, config, fetcher, req, fargs, source, script, delivered, locals, fetch_end,
                   returned>>

\* get_entity returned: get_channel stores the entity and its channel_info in
\* the fetcher, and the caller runs on into fetch_messages up to the first
\* await of its async for, where the iterator is made for self.channel.
ResolveOk(r) ==
    /\ pc[r] = "resolving"
    /\ req[r].channel \in Resolvable
    /\ LET entity == EntityOf(req[r].channel) IN
       /\ fetcher' = [channel |-> Some(entity),
                      channel_info |-> Some(ChannelInfoOf(entity))]
       /\ source' = [source EXCEPT ![r] = Some(entity)]
    /\ IF req[r].via = "web"
       THEN task_progress' = [task_progress EXCEPT !.message = <<"fetching">>,
                                                   !.progress = 20]
       ELSE UNCHANGED task_progress
    /\ fargs' = [fargs EXCEPT ![r] = EffectiveArgs(FetchCall(req[r], Now), config)]
    /\ locals' = [locals EXCEPT ![r] = InitLocals]
    /\ pc' = [pc EXCEPT ![r] = "iter"]
    /\ UNCHANGED <<manager, call, analysis, config, req, script, delivered, fetch_end, returned, outcome>>

\* fetch_messages returns messages_data (how: why its loop ended) and the
\* caller runs to its end; nothing after the return awaits.
FinishFetch(r, loc, how) ==
    /\ locals' = [locals EXCEPT ![r] = loc]
    /\ fetch_end' = [fetch_end EXCEPT ![r] = how]
    /\ returned' = [returned EXCEPT ![r] = Some(loc.messages_data)]
    /\ pc' = [pc EXCEPT ![r] = "done"]
    /\ IF req[r].via = "web"
       THEN LET tp == WebResult(req[r], loc.messages_data, fetcher.channel_info[1])
            IN /\ task_progress' = tp
               /\ outcome' = [outcome EXCEPT ![r] = tp]
       ELSE /\ outcome' = [outcome EXCEPT ![r] = CliResult(req[r], loc.messages_data, Now)]
            /\ UNCHANGED task_progress

\* One turn of the async for: the iterator yields a message of the channel
\* and the body runs to the next await (the loop head or the batch sleep), or
\* leaves by break.
Deliver(r, shapes, bound) ==
    /\ pc[r] = "iter"
    /\ Len(delivered[r]) < bound
    /\ ~LimitReached(r)
    /\ \E sh \in shapes :
        /\ NextInChannel(r, sh)
        /\ InIteratorRange(sh, fargs[r])
        /\ LET message == Message(sh, Len(delivered[r]) + 1)
               step == LoopBody(locals[r], fargs[r], config, message,
                                fetcher.channel_info[1])
               accepted == Len(step.locals.messages_data) > Len(locals[r].messages_data)
           IN /\ delivered' = [delivered EXCEPT ![r] = Append(@, message)]
              /\ IF step.ctl = "break"
                 THEN FinishFetch(r, step.locals, "boundary")
                 ELSE /\ locals' = [locals EXCEPT ![r] = step.locals]
                      /\ pc' = [pc EXCEPT ![r] =
                                   IF step.ctl = "sleep" THEN "sleep" ELSE "iter"]
                      /\ IF accepted /\ req[r].via = "web"
                         THEN task_progress' =
                                 ProgressCallback(task_progress, step.locals.processed,
                                                  Len(step.locals.messages_data))
                         ELSE UNCHANGED task_progress
                      /\ UNCHANGED <<fetch_end, returned, outcome>>
    /\ UNCHANGED <<manager, call, analysis, config, fetcher, req, fargs, source, script>>

\* await asyncio.sleep(config.BATCH_DELAY) is over.
BatchWake(r) ==
    /\ pc[r] = "sleep"
    /\ pc' = [pc EXCEPT ![r] = "iter"]
    /\ UNCHANGED <<manager, call, analysis, config, fetcher, task_progress, req, fargs, source, script, delivered,
                   locals, fetch_end, returned, outcome>>

\* The iterator ends: the channel holds no more messages, or limit messages
\* were yielded.
Exhaust(r) ==
    /\ pc[r] = "iter"
    /\ LimitReached(r) \/ ChannelDrained(r)
    /\ FinishFetch(r, locals[r], IF LimitReached(r) THEN "limit" ELSE "exhausted")
    /\ UNCHANGED <<manager, call, analysis, config, fetcher, req, fargs, source, script, delivered>>

\* The rate-limit signal counted as a processed message.
Flood_Counted(r) ==
    /\ pc[r] = "iter"
    /\ ~LimitReached(r)
    /\ pc' = [pc EXCEPT ![r] = "throttled"]
    /\ locals' = [locals EXCEPT ![r].processed = @ + 1]
    /\ UNCHANGED <<manager, call, analysis, config, fetcher, task_progress, req, fargs, source, script, delivered,
                   fetch_end, returned, outcome>>

\* The iterator raises FloodWaitError: except FloodWaitError, up to its
\* await asyncio.sleep(e.seconds).
Flood(r) ==
    /\ pc[r] = "iter"
    /\ ~LimitReached(r)
    /\ pc' = [pc EXCEPT ![r] = "throttled"]
    /\ UNCHANGED <<manager, call, analysis, config, fetcher, task_progress, req, fargs, source, script, delivered,
                   locals, fetch_end, returned, outcome>>

\* A handler that would start over: the records gathered so far are gone.
FloodWake_Dropping(r) ==
    /\ pc[r] = "throttled"
    /\ FinishFetch(r, [locals[r] EXCEPT !.messages_data = <<>>], "flood")
    /\ UNCHANGED <<manager, call, analysis, config, fetcher, req, fargs, source, script, delivered>>

\* A handler that would run the last consumed message through the loop again.
FloodWake_Reprocessing(r) ==
    /\ pc[r] = "throttled"
    /\ FinishFetch(r,
           IF delivered[r] = <<>> THEN locals[r]
           ELSE LoopBody(locals[r], fargs[r], config, delivered[r][Len(delivered[r])],
                         fetcher.channel_info[1]).locals,
           "flood")
    /\ UNCHANGED <<manager, call, analysis, config, fetcher, req, fargs, source, script, delivered>>

\* The wait is over: the handler ends and fetch_messages goes on to its
\* return statement.
FloodWake(r) ==
    /\ pc[r] = "throttled"
    /\ FinishFetch(r, locals[r], "flood")
    /\ UNCHANGED <<manager, call, analysis, config, fetcher, req, fargs, source, script, delivered>>

\* The iterator raises another error: no except clause of fetch_messages
\* takes it, so it leaves fetch_messages, which returns nothing.
\* _analyze_async reports it; run_analysis prints it and raises it again.
TransportError(r) ==
    /\ pc[r] = "iter"
    /\ ~LimitReached(r)
    /\ fetch_end' = [fetch_end EXCEPT ![r] = "error"]
    /\ pc' = [pc EXCEPT ![r] = "done"]
    /\ IF req[r].via = "web"
       THEN LET tp == [status |-> "error", progress |-> 0,
                       message |-> <<"exception">>, data |-> None]
            IN /\ task_progress' = tp
               /\ outcome' = [outcome EXCEPT ![r] = tp]
       ELSE /\ outcome' = [outcome EXCEPT ![r] =
                              [status |-> "raised", messages |-> <<>>, stats |-> None]]
            /\ UNCHANGED task_progress
    /\ UNCHANGED <<manager, call, analysis, config, fetcher, req, fargs, source, script, delivered, locals, returned>>

\* Ctrl-C on the command line: the run's task is cancelled at the await it
\* is suspended in; run_analysis has no handler that keeps the records.
Cancel(r) ==
    /\ req[r].via = "cli"
    /\ pc[r] \in {"resolving", "iter", "sleep", "throttled"}
    /\ fetch_end' = [fetch_end EXCEPT ![r] =
                        IF pc[r] = "resolving" THEN @ ELSE "cancelled"]
    /\ pc' = [pc EXCEPT ![r] = "done"]
    /\ outcome' = [outcome EXCEPT ![r] =
                      [status |-> "interrupted", messages |-> <<>>, stats |-> None]]
    /\ UNCHANGED <<manager, call, analysis, config, fetcher, task_progress, req, fargs, source, script, delivered,
                   locals, returned>>

\* ------------------------------------------------------------ specifications

WebReq(channel, days, min_reactions, media_only, sort_by, emojis) ==
    [via |-> "web", channel |-> channel, days |-> days, date_from |-> None,
     date_to |-> None, min_reactions |-> min_reactions, media_only |-> media_only,
     sort_by |-> sort_by, emojis |-> emojis]

CliReq(channel, limit, min_reactions, no_media, sort_by) ==
    [via |-> "cli", channel |-> channel, limit |-> limit,
     min_reactions |-> min_reactions, no_media |-> no_media, sort_by |-> sort_by,
     filter_type |-> None, keyword |-> None, days |-> None]

\* One run; run 2 is never started.
Single(q) == [r \in Runs |-> IF r = 1 THEN q ELSE NoReq]

\* Requests of Spec: the web form with and without a one-day window, and the
\* command line with --limit 2 and with --limit 0.
SpecReqs ==
    {WebReq("alpha", d, mm[1], mm[2], "reactions", <<>>) :
        d \in {0, 1}, mm \in {<<2, TRUE>>, <<5, FALSE>>}}
    \cup {CliReq("beta", l, mm[1], mm[2], "reactions") :
        l \in {0, 2}, mm \in {<<0, TRUE>>, <<5, FALSE>>}}

\* The channels are left open: any message of the shapes can come next.
OpenChannels == {[r \in Runs |-> None]}

Init == InitWith({Single(q) : q \in SpecReqs}, OpenChannels, {2, 100})

\* A step of run r that the program or the platform takes.
RunStep(r, shapes, bound) ==
    \/ Start(r)
    \/ Begin(r)
    \/ ResolveFail(r)
    \/ ResolveOk(r)
    \/ Deliver(r, shapes, bound)
    \/ BatchWake(r)
    \/ Exhaust(r)
    \/ Flood(r)
    \/ FloodWake(r)
    \/ TransportError(r)

RunNext(r, shapes, bound) ==
    \/ RunStep(r, shapes, bound)
    \/ Cancel(r)

Next == RunNext(1, FetchShapes, MaxStream)

Spec == Init /\ [][Next]_vars

\* ------------------------------------------------------------------ claims

Ids(s) == [i \in DOMAIN s |-> s[i].id]

Counts(reactions) == [i \in DOMAIN reactions |-> reactions[i].count]

\* A delivered message is in the window, carries reactions that sum to at
\* least the threshold, and has media when media_only is set.
Qualifies(message, a) ==
    /\ a.offset_date = None \/ message.date.t >= a.offset_date[1].t
    /\ message.reactions # None
    /\ SeqSum(Counts(message.reactions[1])) >= a.min_reactions
    /\ a.media_only => message.media # None

QualifyingIds(r) ==
    Ids(SelectSeq(delivered[r], LAMBDA message : Qualifies(message, fargs[r])))

\* A run whose loop ended because the channel or the limit ran out.
NotCutShort(r) == pc[r] = "done" /\ fetch_end[r] \in {"exhausted", "limit"}

\* C1: a fetch_messages run that is not cut short returns exactly the
\* delivered messages that qualify (in window, with reactions, total at least
\* the min_reactions passed, media when media_only), in delivery order: none
\* below the threshold is returned and no qualifying one is left out.
C1_ExactSubsequence ==
    \A r \in Runs :
        NotCutShort(r) =>
            /\ returned[r] # None
            /\ Ids(returned[r][1]) = QualifyingIds(r)
            /\ \A i \in DOMAIN returned[r][1] :
                   /\ returned[r][1][i].total_reactions >= req[r].min_reactions
                   /\ returned[r][1][i].total_reactions
                          = SeqSum(Counts(delivered[r][returned[r][1][i].id].reactions[1]))

\* A run that was not cut short delivered a message under the threshold, a
\* message without media under media_only, and returned two records.
C1_Witness ==
    \E r \in Runs :
        /\ NotCutShort(r)
        /\ returned[r] # None
        /\ Len(returned[r][1]) = 2
        /\ Len(delivered[r]) = 3
        /\ \E i \in DOMAIN delivered[r] :
               /\ delivered[r][i].reactions # None
               /\ \/ SeqSum(Counts(delivered[r][i].reactions[1])) < req[r].min_reactions
                  \/ fargs[r].media_only /\ delivered[r][i].media = None

\* ---------------------------------------------------------------- FloodSpec
\* One run over a channel whose content is fixed before the run starts, so
\* that what the run returns can be set against the whole channel.

SeqsUpTo(S, n) == UNION {[1..k -> S] : k \in 0..n}

FloodShapes ==
    {Shape(RecentTick, Some(FiveReactions), Photo, Some(10), None),
     Shape(RecentTick, Some(TwoReactions), Photo, Some(10), None),
     Shape(OldTick, Some(FiveReactions), Photo, Some(10), None)}

FloodReqs ==
    {WebReq("alpha", 0, 5, TRUE, "reactions", <<>>),
     WebReq("alpha", 1, 2, TRUE, "reactions", <<>>),
     CliReq("beta", 2, 5, FALSE, "reactions")}

FixedChannels ==
    {[r \in Runs |-> IF r = 1 THEN Some(s) ELSE None] :
        s \in SeqsUpTo(FloodShapes, MaxScript)}

FloodInit == InitWith({Single(q) : q \in FloodReqs}, FixedChannels, {2, 100})

FloodNext == RunNext(1, FloodShapes, MaxScript)

FloodSpec == FloodInit /\ [][FloodNext]_vars

\* A run whose fetch_messages returned after a FloodWaitError and its wait.
EndedByFlood(r) == pc[r] = "done" /\ fetch_end[r] = "flood"

\* What fetch_messages of run r returns for the first n messages of its
\* channel when the platform raises nothing.
Uninterrupted(r, n) ==
    FetchAll(SubSeq(script[r][1], 1, n), fargs[r], config,
             ChannelInfoOf(EntityOf(req[r].channel)))

IsPrefix(s, t) == Len(s) <= Len(t) /\ s = SubSeq(t, 1, Len(s))

StrictlyIncreasing(s) == \A i, j \in DOMAIN s : i < j => s[i] < s[j]

C4_FloodKeepsRecords ==
    [][\A r \in Runs :
          (pc[r] = "throttled" \/ pc'[r] = "throttled") =>
              /\ locals'[r] = locals[r]
              /\ delivered'[r] = delivered[r]
              /\ locals'[r].processed = Len(delivered[r])
              /\ EndedByFlood(r)' => returned'[r] = Some(locals[r].messages_data)]_vars

\* A run ended by a FloodWaitError that came after two records were accepted.
C4_Witness ==
    \E r \in Runs :
        /\ EndedByFlood(r)
        /\ returned[r] # None
        /\ Len(returned[r][1]) = 2
        /\ locals[r].processed = 2

\* The records a run had accumulated are in what its caller ended with.
CallerHasRecords(r) ==
    /\ "messages" \in DOMAIN outcome[r] \/ outcome[r].data # None
    /\ LET got == IF "messages" \in DOMAIN outcome[r] THEN outcome[r].messages
                  ELSE outcome[r].data[1].messages
       IN Ids(got) = Ids(locals[r].messages_data)

\* C5: when an error other than FloodWaitError is raised while
\* fetch_messages is streaming, the caller still receives the records
\* accumulated before the error.
C5_ErrorKeepsRecords ==
    \A r \in Runs :
        (pc[r] = "done" /\ fetch_end[r] = "error" /\ locals[r].messages_data # <<>>) =>
            /\ returned[r] = Some(locals[r].messages_data)
            /\ CallerHasRecords(r)

\* C8: a cancellation of a running acquisition yields a completed outcome
\* that contains every record accepted up to that point.
C8_CancelKeepsRecords ==
    \A r \in Runs :
        (pc[r] = "done" /\ fetch_end[r] = "cancelled" /\ locals[r].messages_data # <<>>) =>
            /\ outcome[r].status = "completed"
            /\ CallerHasRecords(r)

\* ----------------------------------------------------------------- DateSpec
\* One run over messages that differ in their date only: the web form with
\* a one-day window, and the command line with --limit 2.

DateReqs ==
    {WebReq("alpha", 1, 5, TRUE, "reactions", <<>>),
     CliReq("beta", 2, 5, FALSE, "reactions")}

DateInit == InitWith({Single(q) : q \in DateReqs}, OpenChannels, {2})

DateNext == RunNext(1, DateShapes, MaxStreamDate)

DateSpec == DateInit /\ [][DateNext]_vars


HasWindow(r) == fargs[r].offset_date # None

Before(message, r) == message.date.t < fargs[r].offset_date[1].t

\* The delivered messages dated before the start date.
OutOfRangeCount(r) ==
    Cardinality({i \in DOMAIN delivered[r] : Before(delivered[r][i], r)})

\* The last 10 delivered messages are all dated before the start date.
LastTenOutOfRange(r) ==
    /\ Len(delivered[r]) >= 10
    /\ \A i \in (Len(delivered[r]) - 9)..Len(delivered[r]) : Before(delivered[r][i], r)

\* C6 as stated: with a start date, fetch_messages stops at the date
\* boundary exactly when 10 consecutive delivered messages are dated before
\* the start date.
C6_TenConsecutive ==
    \A r \in Runs :
        HasWindow(r) => (fetch_end[r] = "boundary" <=> LastTenOutOfRange(r))

\* C6 amended: with a start date, the out-of-range counter counts every
\* delivered message dated before the start date and is never reset;
\* fetch_messages stops at the date boundary exactly when the 10th such
\* message of the run is delivered, consecutive or not.
C6_TenInAll ==
    \A r \in Runs :
        HasWindow(r) =>
            /\ locals[r].skipped_out_of_range = OutOfRangeCount(r)
            /\ fetch_end[r] = "boundary" <=> OutOfRangeCount(r) = 10
            /\ OutOfRangeCount(r) <= 10
            /\ fetch_end[r] = "boundary" => Before(delivered[r][Len(delivered[r])], r)

\* A run that stopped at the date boundary although an in-range message was
\* delivered among its last ten.
C6_Witness ==
    \E r \in Runs :
        /\ HasWindow(r)
        /\ pc[r] = "done"
        /\ fetch_end[r] = "boundary"
        /\ Len(delivered[r]) = 11
        /\ ~LastTenOutOfRange(r)

\* ----------------------------------------------------------------- TermSpec
\* One run to its end: old messages, and recent ones with 2 reactions, for
\* the web form with a one-day window and a threshold of 5 and for the
\* command line with --limit 2 and a threshold of 0.

TermShapes ==
    {Shape(OldTick, Some(FiveReactions), Photo, Some(10), None),
     Shape(RecentTick, Some(TwoReactions), Photo, Some(10), None)}

TermReqs ==
    {WebReq("alpha", 1, 5, TRUE, "reactions", <<>>),
     CliReq("beta", 2, 0, FALSE, "reactions")}

TermInit == InitWith({Single(q) : q \in TermReqs}, OpenChannels, {2})

TermNext == RunNext(1, TermShapes, MaxStreamDate)

\* The event loop runs every continuation that is ready, every sleep ends,
\* and the iterator answers each request (a message, its end, or an error).
TermSpec == TermInit /\ [][TermNext]_vars /\ WF_vars(TermNext)

Fetching(r) == pc[r] \in {"iter", "sleep", "throttled"}

\* A limit that is set (None: unlimited) is at least n.
WithinLimit(n, a) == IF a.limit = None THEN TRUE ELSE n <= a.limit[1]

\* No ending condition of the loop holds yet.
NothingTriggered(r) ==
    /\ IF fargs[r].limit = None THEN TRUE ELSE Len(delivered[r]) < fargs[r].limit[1]
    /\ locals[r].skipped_out_of_range < OutOfRangeThreshold

Terminates == \A r \in Runs : Fetching(r) ~> (pc[r] = "done")

\* fetch_messages of run r has ended, and not by an interrupt from outside.
EndedItself(r) == pc[r] = "done" /\ fetch_end[r] \notin {"none", "cancelled"}

WebShapes ==
    {Shape(RecentTick, Some(FiveReactions), Photo, Some(10), None),
     Shape(RecentTick, Some(TwoReactions), Photo, Some(10), None)}

WebReqs ==
    {[r \in Runs |-> WebReq(IF r = 1 THEN "alpha" ELSE "beta", 0, 5, TRUE,
                            "reactions", <<>>)]}

WebInit == InitWith(WebReqs, OpenChannels, {2})

WebNext == \E r \in Runs : RunStep(r, WebShapes, MaxStreamWeb)

WebSpec == WebInit /\ [][WebNext]_vars

\* The channel_info of the channel run r was started for.
OwnInfo(r) == ChannelInfoOf(EntityOf(req[r].channel))

\* C9: two interleaved analyses are independent: each fetches from its own
\* channel, builds its records from its own channel_info, and reports its
\* own channel_info in its result.
C9_RunsIndependent ==
    \A r \in Runs :
        /\ source[r] # None => source[r] = Some(EntityOf(req[r].channel))
        /\ \A i \in DOMAIN locals[r].messages_data :
               locals[r].messages_data[i].link
                   = GetMessageLink(OwnInfo(r), locals[r].messages_data[i].id)
        /\ (pc[r] = "done" /\ outcome[r].status = "completed") =>
               outcome[r].data[1].channel_info = OwnInfo(r)

\* ------------------------------------------------------------- AnalyzerSpec
\* A MessageAnalyzer over the records of one fetch, with every sort and
\* filter called on it, the selected-emoji sort of the web manager, and
\* run_analysis's analyzer.messages = filtered_messages between the calls.

CustomReactions == <<Emoji(ThumbsUp, 3), CustomEmoji(7, 4)>>

Hello == <<"H", "i">>

AnalyzerShapes ==
    {Shape(RecentTick, Some(FiveReactions), Photo, Some(10), Some(Hello)),
     Shape(RecentTick, Some(<<Emoji(RedHeart, 5)>>), None, Some(0), None),
     Shape(OldTick, Some(TwoReactions), Photo, None, None),
     Shape(RecentTick, Some(CustomReactions), Photo, Some(20), Some(Hello))}

\* fetch_messages(limit=None, min_reactions=0, media_only=False)
FetchEverything ==
    [limit |-> None, min_reactions |-> 0, media_only |-> FALSE, offset_date |-> None,
     end_date |-> None]

\* The lists fetch_messages returns for the channel contents of the shapes.
FetchedLists ==
    {FetchAll(s, FetchEverything, DefaultConfig(100), ChannelInfoOf(EntityOf("alpha"))) :
        s \in SeqsUpTo(AnalyzerShapes, MaxRecords)}

AnalyzerInit ==
    /\ InitRuns({[r \in Runs |-> NoReq]}, OpenChannels, {100})
    /\ analysis \in {NewAnalyzer(messages) : messages \in FetchedLists}
    /\ call = NoCall

\* The dicts of `list` as they are after a call wrote onto the dicts of
\* `written` (the lists share their dicts; ids tell them apart).
Rewritten(list, written) ==
    [i \in DOMAIN list |->
        IF \E j \in DOMAIN written : written[j].id = list[i].id
        THEN written[CHOOSE j \in DOMAIN written : written[j].id = list[i].id]
        ELSE list[i]]

\* A sort of the analyzer was called: it stores and returns `sorted`, and
\* leaves self.messages as `messages`.
Sorted(name, reverse, messages, sorted) ==
    /\ analysis.calls < MaxOps
    /\ analysis' = [messages |-> messages, sorted_messages |-> sorted, op |-> name,
                    reverse |-> reverse, input |-> analysis.messages, arg |-> None,
                    emojis |-> <<>>,
                    result |-> Some(sorted), calls |-> analysis.calls + 1]
    /\ UNCHANGED <<manager, call, config, fetcher, task_progress, pc, req, fargs, source, script,
                   delivered, locals, fetch_end, returned, outcome>>

\* A filter of the analyzer was called with the messages argument `arg`,
\* worked on `input` and returned `filtered`.
Filtered(name, arg, input, filtered) ==
    /\ analysis.calls < MaxOps
    /\ analysis' = [analysis EXCEPT !.op = name, !.reverse = FALSE, !.input = input,
                                    !.arg = arg, !.emojis = <<>>,
                                    !.result = Some(filtered), !.calls = @ + 1]
    /\ UNCHANGED <<manager, call, config, fetcher, task_progress, pc, req, fargs, source, script,
                   delivered, locals, fetch_end, returned, outcome>>

CallSortByReactions ==
    \E reverse \in BOOLEAN :
        Sorted("sort_by_reactions", reverse, analysis.messages,
               SortByReactions(analysis.messages, reverse))

CallSortByViews ==
    \E reverse \in BOOLEAN :
        Sorted("sort_by_views", reverse, analysis.messages,
               SortByViews(analysis.messages, reverse))

CallSortByEngagementRate ==
    Sorted("sort_by_engagement_rate", TRUE, WithEngagementRate(analysis.messages),
           SortByEngagementRate(analysis.messages, TRUE))

CallSortByReplies ==
    Sorted("sort_by_replies", TRUE, analysis.messages,
           SortByReplies(analysis.messages, TRUE))

\* The messages argument of a filter: left out, or the list the last call
\* returned.
MessagesArgs == {None} \cup (IF analysis.result = None THEN {} ELSE {analysis.result})

CallFilterByMediaType ==
    \E arg \in MessagesArgs :
        Filtered("filter_by_media_type", arg, FilterSource(arg, analysis.messages),
                 FilterByMediaType(analysis.messages, {"photo"}, arg))

CallFilterByDateRange ==
    \E arg \in MessagesArgs :
        Filtered("filter_by_date_range", arg, FilterSource(arg, analysis.messages),
                 FilterByDateRange(analysis.messages, None, None, Some(1), Now, arg))

CallFilterByKeyword ==
    \E arg \in MessagesArgs :
        Filtered("filter_by_keyword", arg, FilterSource(arg, analysis.messages),
                 FilterByKeyword(analysis.messages, <<<<"h", "i">>>>, FALSE, arg))

\* The emojis a request selects: the heart without its variation selector,
\* or thumbs-up and the heart with it.
EmojiTargets == {<<<<"U2764">>>>, <<ThumbsUp, <<"U2764", "UFE0F">>>>}

\* TelegramManager._sort_by_emojis(messages, emojis) on the list the
\* analyzer was made for: it writes selected_emoji_count onto every dict.
CallSortByEmojis ==
    /\ analysis.calls < MaxOps
    /\ \E emojis \in EmojiTargets :
        LET counted == WithSelectedEmojiCount(analysis.messages, emojis) IN
        analysis' = [messages |-> counted,
                     sorted_messages |-> Rewritten(analysis.sorted_messages, counted),
                     op |-> "sort_by_emojis", reverse |-> TRUE,
                     input |-> analysis.messages, arg |-> None, emojis |-> emojis,
                     result |-> Some(SortByEmojis(analysis.messages, emojis)),
                     calls |-> analysis.calls + 1]
    /\ UNCHANGED <<manager, call, config, fetcher, task_progress, pc, req, fargs, source, script,
                   delivered, locals, fetch_end, returned, outcome>>

\* analyzer.messages = filtered_messages (run_analysis), for the list the
\* last call returned.
AdoptResult ==
    /\ analysis.result # None
    /\ analysis.result[1] # analysis.messages
    /\ analysis' = [analysis EXCEPT !.messages = analysis.result[1]]
    /\ UNCHANGED <<manager, call, config, fetcher, task_progress, pc, req, fargs, source, script,
                   delivered, locals, fetch_end, returned, outcome>>

AnalyzerNext ==
    \/ CallSortByReactions
    \/ CallSortByViews
    \/ CallSortByEngagementRate
    \/ CallSortByReplies
    \/ CallFilterByMediaType
    \/ CallFilterByDateRange
    \/ CallFilterByKeyword
    \/ CallSortByEmojis
    \/ AdoptResult

AnalyzerSpec == AnalyzerInit /\ [][AnalyzerNext]_vars

\* total_reactions of every record of the list is the sum of the counts of
\* its reactions.
TotalsAddUp(list) ==
    \A i \in DOMAIN list :
        list[i].total_reactions = SeqSum(Counts(list[i].reactions))

\* C2: for every record fetch_messages returned, and after any sequence of
\* sorts and filters of the analyzer and of the selected-emoji sort,
\* total_reactions is the sum of the count fields of the record's reactions.
C2_TotalIsSumOfCounts ==
    /\ TotalsAddUp(analysis.messages)
    /\ TotalsAddUp(analysis.sorted_messages)
    /\ TotalsAddUp(analysis.input)
    /\ analysis.result # None => TotalsAddUp(analysis.result[1])

\* Two calls were made, the second one writing a derived key onto records
\* that have several reactions, and it returned two records or more.
C2_Witness ==
    /\ analysis.calls = 2
    /\ analysis.op \in {"sort_by_engagement_rate", "sort_by_emojis"}
    /\ analysis.result # None
    /\ Len(analysis.result[1]) >= 2
    /\ \E i \in DOMAIN analysis.result[1] :
           /\ Len(analysis.result[1][i].reactions) = 2
           /\ \/ analysis.result[1][i].engagement_rate # None
              \/ analysis.result[1][i].selected_emoji_count # None

\* The place of the record with this id in the list (ids are unique).
PlaceOf(id, list) == CHOOSE i \in DOMAIN list : list[i].id = id

\* `out` holds the records of `inp`, each once.
IsPermutation(out, inp) ==
    /\ Len(out) = Len(inp)
    /\ \A i \in DOMAIN inp : \E j \in DOMAIN out : out[j] = inp[i]
    /\ \A i, j \in DOMAIN out : i # j => out[i].id # out[j].id

\* C10: sort_by_reactions (descending) returns a permutation of its input
\* in non-increasing order of total_reactions, records with equal
\* total_reactions keeping the order they had in the input.
C10_StableDescending ==
    (analysis.op = "sort_by_reactions" /\ analysis.reverse) =>
        LET out == analysis.result[1]
            inp == analysis.input
        IN /\ IsPermutation(out, inp)
           /\ \A i, j \in DOMAIN out :
                  i < j =>
                      /\ out[i].total_reactions >= out[j].total_reactions
                      /\ out[i].total_reactions = out[j].total_reactions =>
                             PlaceOf(out[i].id, inp) < PlaceOf(out[j].id, inp)

\* sort_by_reactions (descending) was called on three records that were not
\* in order, two of them with equal total_reactions.
C10_Witness ==
    /\ analysis.op = "sort_by_reactions"
    /\ analysis.reverse
    /\ Len(analysis.input) = 3
    /\ analysis.result # Some(analysis.input)
    /\ \E i, j \in DOMAIN analysis.input :
           /\ i < j
           /\ analysis.input[i].total_reactions = analysis.input[j].total_reactions
           /\ analysis.input[i] # [analysis.input[j] EXCEPT !.id = analysis.input[i].id]

IdSet(list) == {list[i].id : i \in DOMAIN list}

NoIdTwice(list) == \A i, j \in DOMAIN list : i # j => list[i].id # list[j].id

\* C11: sort_by_views drops a record if and only if it has no recorded view
\* count (a recorded count of 0 is kept) and returns the remaining records
\* in non-increasing order of views.
C11_DropsOnlyUnrecorded ==
    (analysis.op = "sort_by_views" /\ analysis.reverse) =>
        LET out == analysis.result[1]
            inp == analysis.input
        IN /\ IdSet(out) = {inp[i].id : i \in {k \in DOMAIN inp : inp[k].views # None}}
           /\ \A i, j \in DOMAIN out : i < j => out[i].views[1] >= out[j].views[1]

\* C12: sort_by_engagement_rate returns exactly the input records with
\* views > 0, each once and with its rate total_reactions / views * 100
\* written onto it, a record a placed before a record b having
\* a.total_reactions * b.views >= b.total_reactions * a.views.
C12_EngagementOrder ==
    analysis.op = "sort_by_engagement_rate" =>
        LET out == analysis.result[1]
            inp == analysis.input
            kept == {k \in DOMAIN inp : inp[k].views # None /\ inp[k].views[1] > 0}
        IN /\ IdSet(out) = {inp[k].id : k \in kept}
           /\ Len(out) = Cardinality(kept)
           /\ NoIdTwice(out)
           /\ \A i \in DOMAIN out :
                  /\ out[i].engagement_rate # None
                  /\ out[i].engagement_rate[1].num = out[i].total_reactions * 100
                  /\ out[i].engagement_rate[1].den = out[i].views[1]
                  /\ [out[i] EXCEPT !.engagement_rate = None]
                         = [inp[PlaceOf(out[i].id, inp)] EXCEPT !.engagement_rate = None]
           /\ \A i, j \in DOMAIN out :
                  i < j => out[i].total_reactions * out[j].views[1]
                               >= out[j].total_reactions * out[i].views[1]

\* The engagement sort was called on three records, one of them without
\* positive views, and put a record with fewer reactions first.
C12_Witness ==
    /\ analysis.op = "sort_by_engagement_rate"
    /\ Len(analysis.input) = 3
    /\ Len(analysis.result[1]) = 2
    /\ analysis.result[1][1].total_reactions < analysis.result[1][2].total_reactions
    /\ analysis.result[1][1].id > analysis.result[1][2].id

\* The last two calls were the same sort with the same arguments, the second
\* one made on self.messages as the first one left them.
SameSortAgain ==
    /\ analysis.op \in {"sort_by_engagement_rate", "sort_by_emojis"}
    /\ Ids(analysis.messages) = Ids(analysis.input)
    /\ analysis'.calls = analysis.calls + 1
    /\ analysis'.op = analysis.op
    /\ analysis'.reverse = analysis.reverse
    /\ analysis'.emojis = analysis.emojis

\* C13: calling sort_by_engagement_rate, or the selected-emoji sort with the
\* same emojis, twice in a row on an unchanged record set gives the derived
\* keys the same values and returns the same list in the same order as
\* calling it once.
C13_SecondCallChangesNothing ==
    [][SameSortAgain =>
           /\ analysis'.result = analysis.result
           /\ analysis'.messages = analysis.messages]_vars

\* The second of two calls in a row of the same sort: self.messages already
\* carried the derived key as only the first call can have written it (the
\* engagement rate on some records and not on the ones without views, the
\* emoji counts as no other selection gives them), and the call returned two
\* records or more with differing keys.
C13_Witness ==
    /\ analysis.calls = 2
    /\ Len(analysis.input) = 3
    /\ Len(analysis.result[1]) >= 2
    /\ \/ /\ analysis.op = "sort_by_engagement_rate"
          /\ \E i, j \in DOMAIN analysis.input :
                 /\ analysis.input[i].engagement_rate # None
                 /\ analysis.input[j].engagement_rate = None
          /\ analysis.result[1][1].engagement_rate # analysis.result[1][2].engagement_rate
       \/ /\ analysis.op = "sort_by_emojis"
          /\ \A i \in DOMAIN analysis.input :
                 analysis.input[i].selected_emoji_count
                     = Some(get_emoji_count(analysis.input[i], analysis.emojis))
          /\ \A other \in EmojiTargets \ {analysis.emojis} :
                 \E i \in DOMAIN analysis.input :
                     analysis.input[i].selected_emoji_count
                         # Some(get_emoji_count(analysis.input[i], other))
          /\ analysis.result[1][1].selected_emoji_count
                 # analysis.result[1][2].selected_emoji_count

\* ------------------------------------------- the emoji functions on their own

MaxEmojiLen == 3

\* The code points of the strings given to normalize_emoji: a heart, a letter
\* and the combining accent NFC composes it with, a variation selector, the
\* zero-width joiner and a space.
EmojiAlphabet == {"U2764", "e", "U0301", "UFE0F", "U200D", " "}

EmojiStrings == SeqsUpTo(EmojiAlphabet, MaxEmojiLen)

\* Messages whose reactions are the composed letter and a thumbs-up, a heart
\* with its variation selector, or a heart without it.
EmojiShapes ==
    {Shape(RecentTick, Some(<<Emoji(<<"U00E9">>, 3), Emoji(ThumbsUp, 5)>>), None, Some(10), None),
     Shape(RecentTick, Some(<<Emoji(RedHeart, 2)>>), None, Some(10), None),
     Shape(RecentTick, Some(<<Emoji(<<"U2764">>, 4)>>), None, Some(10), None)}

EmojiLists ==
    {FetchAll(s, FetchEverything, DefaultConfig(100), ChannelInfoOf(EntityOf("alpha"))) :
        s \in [1..2 -> EmojiShapes]}

\* An emoji a request selects and the messages it is to be counted in.
EmojiInit ==
    /\ InitRuns({[r \in Runs |-> NoReq]}, OpenChannels, {100})
    /\ analysis = NewAnalyzer(<<>>)
    /\ call \in {[fn |-> "none", args |-> [e |-> e, messages |-> messages],
                  result |-> None] : e \in EmojiStrings, messages \in EmojiLists}

Returned(fn, result) ==
    /\ call.fn = "none"
    /\ call' = [call EXCEPT !.fn = fn, !.result = Some(result)]
    /\ UNCHANGED <<manager, analysis, config, fetcher, task_progress, pc, req, fargs, source,
                   script, delivered, locals, fetch_end, returned, outcome>>

CallNormalizeEmoji == Returned("normalize_emoji", normalize_emoji(call.args.e))

CallGetEmojiBase == Returned("get_emoji_base", get_emoji_base(call.args.e))

\* _sort_by_emojis(messages, [e])
CallSortByOneEmoji ==
    Returned("_sort_by_emojis", SortByEmojis(call.args.messages, <<call.args.e>>))

\* MessageAnalyzer(messages).get_reaction_statistics()
CallGetReactionStatistics ==
    Returned("get_reaction_statistics", ReactionStatistics(call.args.messages))

EmojiNext ==
    \/ CallNormalizeEmoji
    \/ CallGetEmojiBase
    \/ CallSortByOneEmoji
    \/ CallGetReactionStatistics

EmojiSpec == EmojiInit /\ [][EmojiNext]_vars

\* The string without the variation selectors and zero-width joiners in it.
Undecorated(e) == SelectSeq(e, LAMBDA c : c \notin {"UFE0E", "UFE0F", "U200D"})

\* The strings that differ from e by inserted variation selectors and
\* zero-width joiners only.
SameButDecoration(e) == {y \in EmojiStrings : Undecorated(y) = Undecorated(e)}

\* C14: the selected-emoji sort stores as selected_emoji_count the sum of the
\* counts of the record's reactions that match the target set, returns the
\* records in non-increasing order of that count, and stores and returns the
\* same when the target symbol is given plain or decorated with variation
\* selectors or zero-width joiners.
C14_SameForDecorated ==
    call.fn = "_sort_by_emojis" =>
        LET out == call.result[1] IN
        /\ IsPermutation([i \in DOMAIN out |-> [out[i] EXCEPT !.selected_emoji_count = None]],
                         call.args.messages)
        /\ \A i \in DOMAIN out :
               out[i].selected_emoji_count
                   = Some(SeqSum([k \in DOMAIN out[i].reactions |->
                                     IF ReactionMatches(out[i].reactions[k], <<call.args.e>>)
                                     THEN out[i].reactions[k].count ELSE 0]))
        /\ \A i, j \in DOMAIN out :
               i < j => out[i].selected_emoji_count[1] >= out[j].selected_emoji_count[1]
        /\ \A y \in SameButDecoration(call.args.e) :
               SortByEmojis(call.args.messages, <<y>>) = out

\* C15: normalize_emoji gives the same string for two strings that differ
\* only by inserted variation selectors or zero-width joiners, and the empty
\* string for the empty string.
C15_DecorationIgnored ==
    call.fn = "normalize_emoji" =>
        /\ \A y \in SameButDecoration(call.args.e) : normalize_emoji(y) = call.result[1]
        /\ call.args.e = <<>> => call.result[1] = <<>>

\* --------------------------------------------------- the summary on its own

\* print_statistics(stats): it subscripts stats with the three totals (and
\* the averages computed with them) before anything else; a key that is not
\* there raises KeyError.
PrintStatistics(stats) ==
    IF {"total_messages", "total_reactions", "total_views"} \subseteq DOMAIN stats
    THEN [raised |-> None]
    ELSE [raised |-> Some("KeyError")]

SummaryInit ==
    /\ InitRuns({[r \in Runs |-> NoReq]}, OpenChannels, {100})
    /\ analysis \in {NewAnalyzer(messages) : messages \in FetchedLists}
    /\ call = NoCall

\* analyzer.generate_summary()
CallGenerateSummary ==
    /\ call.fn = "none"
    /\ call' = [fn |-> "generate_summary", args |-> <<>>,
                result |-> Some(GenerateSummary(analysis.messages))]
    /\ UNCHANGED <<manager, analysis, config, fetcher, task_progress, pc, req, fargs, source,
                   script, delivered, locals, fetch_end, returned, outcome>>

\* print_statistics(stats) with the summary just made.
CallPrintStatistics ==
    /\ call.fn = "generate_summary"
    /\ call' = [fn |-> "print_statistics", args |-> <<call.result[1]>>,
                result |-> Some(PrintStatistics(call.result[1]))]
    /\ UNCHANGED <<manager, analysis, config, fetcher, task_progress, pc, req, fargs, source,
                   script, delivered, locals, fetch_end, returned, outcome>>

SummaryNext ==
    \/ CallGenerateSummary
    \/ CallPrintStatistics

SummarySpec == SummaryInit /\ [][SummaryNext]_vars

\* C16: generate_summary on an empty record set returns a summary that
\* reports zero totals (messages, reactions, views) together with a no-data
\* flag, and nothing raises, neither making the summary nor printing it.
C16_EmptySummaryHasZeroTotals ==
    analysis.messages = <<>> =>
        /\ call.fn = "generate_summary" =>
               LET stats == call.result[1] IN
               /\ "message" \in DOMAIN stats
               /\ {"total_messages", "total_reactions", "total_views"} \subseteq DOMAIN stats
               /\ stats.total_messages = 0
               /\ stats.total_reactions = 0
               /\ stats.total_views = 0
        /\ call.fn = "print_statistics" => call.result[1].raised = None

\* The list the last call of the analyzer was given: its messages argument
\* when one was passed, self.messages otherwise.
GivenList == IF analysis.arg # None THEN analysis.arg[1] ELSE analysis.input

\* C17: every filter and every sort returns an empty list when it is given
\* an empty list, an empty list passed as the messages argument of a filter
\* whose self.messages is not empty included.
C17_EmptyInEmptyOut ==
    (analysis.op # "none" /\ GivenList = <<>>) => analysis.result = Some(<<>>)

\* ----------------------------------------------- the date filter on its own

\* Messages dated before now, at now and (the clock of the platform being
\* ahead of datetime.now()) after now.
WindowShapes ==
    {Shape(t, Some(TwoReactions), None, Some(10), None) :
        t \in {Now.t - 2 * TicksPerDay, Now.t - TicksPerDay - 1, Now.t - TicksPerDay,
               Now.t, Now.t + 1}}

WindowLists ==
    {FetchAll(s, FetchEverything, DefaultConfig(100), ChannelInfoOf(EntityOf("alpha"))) :
        s \in SeqsUpTo(WindowShapes, MaxRecords)}

\* start_date, end_date, days and messages of a filter_by_date_range call on
\* an analyzer of `messages`.
WindowArgs(messages) ==
    [start_date : {None, Some(DateTime(Now.t - TicksPerDay))},
     end_date   : {None, Some(DateTime(Now.t - TicksPerDay)), Some(DateTime(Now.t))},
     days       : {None, Some(1), Some(2)},
     messages   : {None, Some(<<>>), Some(SubSeq(messages, 2, Len(messages)))}]

WindowInit ==
    /\ InitRuns({[r \in Runs |-> NoReq]}, OpenChannels, {100})
    /\ analysis \in {NewAnalyzer(messages) : messages \in WindowLists}
    /\ call \in {[fn |-> "none", args |-> args, result |-> None] :
                    args \in WindowArgs(analysis.messages)}

\* analyzer.filter_by_date_range(start_date, end_date, days, messages), with
\* datetime.now() giving Now.
CallFilterByDateRangeWith ==
    Returned("filter_by_date_range",
             FilterByDateRange(analysis.messages, call.args.start_date, call.args.end_date,
                               call.args.days, Now, call.args.messages))

WindowNext == CallFilterByDateRangeWith

WindowSpec == WindowInit /\ [][WindowNext]_vars

\* The list the filter works on: self.messages when the messages argument is
\* left out or empty.
WindowInput ==
    IF call.args.messages # None /\ call.args.messages[1] # <<>>
    THEN call.args.messages[1]
    ELSE analysis.messages

\* start <= timestamp <= end, a bound that is None not bounding.
Within(m, start, end) ==
    /\ start # None => start[1].t <= m.date.t
    /\ end # None => m.date.t <= end[1].t

DaysGiven == call.args.days # None /\ call.args.days[1] > 0

DaysAgo == DateTime(Now.t - call.args.days[1] * TicksPerDay)

\* C18 as stated: with days=N the filter returns exactly the records dated
\* now - N days or later, in input order; with explicit bounds exactly the
\* records with start <= timestamp <= end.
C18_NoUpperBoundWithDays ==
    call.fn = "filter_by_date_range" =>
        call.result[1] =
            SelectSeq(WindowInput,
                      LAMBDA m : IF DaysGiven THEN Within(m, Some(DaysAgo), None)
                                 ELSE Within(m, call.args.start_date, call.args.end_date))

\* C18: for a fixed now and N > 0, filter_by_date_range(days=N) returns
\* exactly the records of the list it works on with
\* now - N days <= timestamp <= now, in the order of that list; with explicit
\* bounds it returns exactly the records with start <= timestamp <= end.
C18_WindowEndsNow ==
    call.fn = "filter_by_date_range" =>
        call.result[1] =
            SelectSeq(WindowInput,
                      LAMBDA m : IF DaysGiven THEN Within(m, Some(DaysAgo), Some(Now))
                                 ELSE Within(m, call.args.start_date, call.args.end_date))

\* The filter was called with days=1 on three messages: one dated exactly
\* one day ago, which it kept, one dated after now and one older than a day,
\* which it dropped.
C18_Witness ==
    /\ call.fn = "filter_by_date_range"
    /\ call.args.days = Some(1)
    /\ call.args.messages = None
    /\ Len(analysis.messages) = 3
    /\ \E i, j, k \in DOMAIN analysis.messages :
           /\ analysis.messages[i].date = DaysAgo
           /\ analysis.messages[j].date.t > Now.t
           /\ analysis.messages[k].date.t < DaysAgo.t
           /\ call.result[1] = <<analysis.messages[i]>>

\* Run r has been started / has ended.
Started(r) == pc[r] # "idle"

Ended(r) == pc[r] = "done"

\* What the run told its caller at its end (task_progress for the web form,
\* the printed line for the command line): the channel could not be got.
NoChannelReported(r) ==
    IF req[r].via = "web"
    THEN outcome[r].status = "error" /\ outcome[r].message = <<"no_channel">>
    ELSE outcome[r].status = "no_channel"

\* ... : no message met the conditions.
NoMessagesReported(r) ==
    IF req[r].via = "web"
    THEN outcome[r].status = "error" /\ outcome[r].message = <<"no_messages">>
    ELSE outcome[r].status = "no_messages"

\* fetch_messages of run r was never called.
FetchNeverStarted(r) == fetch_end[r] = "none" /\ returned[r] = None

\* Ctrl-C ended run r.
Interrupted(r) == outcome[r].status = "interrupted"

\* C19: every started run ends, with one terminal outcome that is set when
\* the run ends and never changes afterwards, and the outcome of a run whose
\* fetch ran and returned no record differs from the outcome of a run whose
\* channel could not be resolved: each is reported in that case only (a run
\* of the command line that Ctrl-C ends reports the interrupt instead).
C19_OneOutcomeTellsWhy ==
    /\ \A r \in Runs : Started(r) ~> Ended(r)
    /\ [](\A r \in Runs :
            /\ Ended(r) <=> outcome[r] # Pending
            /\ Ended(r) =>
                   /\ NoChannelReported(r) <=> (FetchNeverStarted(r) /\ ~Interrupted(r))
                   /\ NoMessagesReported(r) <=> returned[r] = Some(<<>>)
                   /\ ~(NoChannelReported(r) /\ NoMessagesReported(r)))
    /\ [][\A r \in Runs : outcome[r] # Pending => outcome'[r] = outcome[r]]_vars

\* A run of the web form has ended after its fetch was given two messages
\* and accepted none.
C19_Witness ==
    /\ Ended(1)
    /\ req[1].via = "web"
    /\ Len(delivered[1]) = 2
    /\ returned[1] = Some(<<>>)
    /\ NoMessagesReported(1)

\* C20: during a fetch_messages run the pacing delay is taken after every
\* BATCH_SIZE-th processed message, whether that message was accepted or
\* skipped: an iteration that brings processed to a positive multiple of
\* config.BATCH_SIZE and does not end the run is followed by the delay.
C20_PauseEveryBatch ==
    [][\A r \in Runs :
          (/\ locals'[r].processed = locals[r].processed + 1
           /\ locals'[r].processed % config.BATCH_SIZE = 0
           /\ pc'[r] # "done")
              => pc'[r] = "sleep"]_vars

\* Run r took one more message from its iterator in this step.
TookMessage(r) == Len(delivered'[r]) = Len(delivered[r]) + 1

LastTaken(r) == delivered'[r][Len(delivered'[r])]

\* The message is not dated before the start date of the call.
InDateRange(m, a) == ~(a.offset_date # None /\ m.date.t < a.offset_date[1].t)

\* A message in the date range with reactions, their counts summing to less
\* than min_reactions, and without media, media_only being set.
LowAndBare(m, a) ==
    /\ InDateRange(m, a)
    /\ m.reactions # None
    /\ SeqSum([i \in DOMAIN m.reactions[1] |-> m.reactions[1][i].count]) < a.min_reactions
    /\ m.media = None
    /\ a.media_only

\* The skip counters of run r move by these amounts in this step.
CountersMove(r, no_reactions, no_media) ==
    /\ locals'[r].skipped_no_reactions = locals[r].skipped_no_reactions + no_reactions
    /\ locals'[r].skipped_no_media = locals[r].skipped_no_media + no_media
    /\ locals'[r].messages_data = locals[r].messages_data

FileNames ==
    {<<"a">> \o e : e \in ArchiveExts \cup ExecutableExts \cup VideoExts \cup AudioExts
                          \cup DocumentExts \cup ImageExts}
    \cup {<<"a", ".", "P", "D", "F">>, <<"a">>, <<"a", ".", "z", "i", "p", ".", "b">>}

\* doc.attributes: nothing, a file name, or a file name behind another attribute.
AttributeLists ==
    {<<>>, <<[cls |-> "DocumentAttributeVideo", file_name |-> <<>>]>>}
    \cup {<<[cls |-> "DocumentAttributeFilename", file_name |-> n]>> : n \in FileNames}
    \cup {<<[cls |-> "DocumentAttributeVideo", file_name |-> <<>>],
            [cls |-> "DocumentAttributeFilename", file_name |-> n]>> : n \in FileNames}

\* message.media: none, a photo, a web page, a document with and without
\* its doc, and two classes _get_media_info has no branch for.
MediaValues ==
    {None, Photo,
     Some([cls |-> "MessageMediaWebPage", document |-> None]),
     Some([cls |-> "MessageMediaPoll", document |-> None]),
     Some([cls |-> "MessageMediaGeo", document |-> None]),
     Some([cls |-> "MessageMediaDocument", document |-> None])}
    \cup {Some([cls |-> "MessageMediaDocument",
                document |-> Some([size |-> 1024, attributes |-> attrs])]) :
             attrs \in AttributeLists}

MediaInit ==
    /\ InitRuns({[r \in Runs |-> NoReq]}, OpenChannels, {100})
    /\ analysis = NewAnalyzer(<<>>)
    /\ call \in {[fn |-> "none",
                  args |-> [message |-> Message(Shape(RecentTick, Some(TwoReactions), media,
                                                      Some(10), None), 1)],
                  result |-> None] : media \in MediaValues}

\* self._get_media_info(message)
CallGetMediaInfo == Returned("_get_media_info", GetMediaInfo(call.args.message))

\* fetch_messages on a channel that holds the message, and
\* MessageAnalyzer(messages).get_media_statistics()
CallGetMediaStatistics ==
    /\ call.fn = "_get_media_info"
    /\ call' = [call EXCEPT !.fn = "get_media_statistics",
                            !.result = Some(MediaStatistics(
                                FetchAll(<<call.args.message>>, FetchEverything,
                                         DefaultConfig(100),
                                         ChannelInfoOf(EntityOf("alpha")))))]
    /\ UNCHANGED <<manager, analysis, config, fetcher, task_progress, pc, req, fargs, source,
                   script, delivered, locals, fetch_end, returned, outcome>>

MediaNext ==
    \/ CallGetMediaInfo
    \/ CallGetMediaStatistics

MediaSpec == MediaInit /\ [][MediaNext]_vars

\* The classes _get_media_info has a branch for.
RecognisedMedia == {"MessageMediaDocument", "MessageMediaPhoto", "MessageMediaWebPage"}

\* C22: for a message whose media is of a class the classifier does not
\* recognise, _get_media_info returns the type 'unknown' (and the media
\* statistics count it under 'unknown'); for a message with no media it
\* returns has_media False and the type None.
C22_UnrecognisedIsUnknown ==
    LET media == call.args.message.media IN
    /\ call.fn = "_get_media_info" =>
           IF media = None
           THEN ~call.result[1].has_media /\ call.result[1].type = None
           ELSE media[1].cls \notin RecognisedMedia =>
                    call.result[1].has_media /\ call.result[1].type = Some("unknown")
    /\ (call.fn = "get_media_statistics" /\ media # None) =>
           (media[1].cls \notin RecognisedMedia =>
                DOMAIN call.result[1].type_counts = {"unknown"})

\* C23: the reaction statistics aggregate the counts per emoji identity (two
\* reactions whose symbols differ only by a variation selector or zero-width
\* joiner are summed under one key), and top_emojis lists the at most 10
\* identities with the highest aggregate count in non-increasing order.
C23_OneKeyPerIdentity ==
    call.fn = "get_reaction_statistics" =>
        LET stats == call.result[1] IN
        /\ \A i, j \in DOMAIN stats.emoji_counts :
               Undecorated(stats.emoji_counts[i].emoji) = Undecorated(stats.emoji_counts[j].emoji)
                   => i = j
        /\ Len(stats.top_emojis) <= TopEmojis
        /\ \A i, j \in DOMAIN stats.top_emojis :
               i < j => stats.top_emojis[i].count >= stats.top_emojis[j].count

\* C24: between the loop iterations of a fetch_messages run and at its end,
\* after a rate-limit signal too, processed is the number of accepted records
\* plus skipped_no_reactions plus skipped_no_media plus skipped_out_of_range,
\* and the number of messages taken from the iterator: every one of them is
\* counted in exactly one bucket.
C24_EveryMessageInOneBucket ==
    \A r \in Runs :
        /\ locals[r].processed
               = Len(locals[r].messages_data) + locals[r].skipped_no_reactions
                 + locals[r].skipped_no_media + locals[r].skipped_out_of_range
        /\ locals[r].processed = Len(delivered[r])

\* A run that a rate-limit signal ended had taken three messages: one it
\* accepted, one it skipped for its reactions and one for its media.
C24_Witness ==
    /\ pc[1] = "done"
    /\ fetch_end[1] = "flood"
    /\ locals[1].processed = 3
    /\ Len(locals[1].messages_data) = 1
    /\ locals[1].skipped_no_reactions = 1
    /\ locals[1].skipped_no_media = 1

\* ------------------------------------------- the command line's filter chain

\* Fetched records for the filter chain: with and without a photo, with and
\* without the text "Hi", recent and old.
ChainShapes ==
    {Shape(RecentTick, Some(TwoReactions), Photo, Some(10), None),
     Shape(RecentTick, Some(TwoReactions), None, Some(10), Some(Hello)),
     Shape(OldTick, Some(TwoReactions), Photo, Some(10), Some(Hello)),
     Shape(RecentTick, Some(FiveReactions), Photo, Some(10), Some(Hello))}

ChainLists ==
    {FetchAll(s, FetchEverything, DefaultConfig(100), ChannelInfoOf(EntityOf("beta"))) :
        s \in [1..2 -> ChainShapes]}

\* --filter-type photo, --keyword Hi and --days 1, each given or left out.
ChainReqs ==
    {[CliReq("beta", 0, 0, TRUE, "reactions")
        EXCEPT !.filter_type = ft, !.keyword = kw, !.days = d] :
        ft \in {None, Some({"photo"})}, kw \in {None, Some(<<Hello>>)},
        d \in {None, Some(1)}}

ChainInit ==
    /\ InitRuns({[r \in Runs |-> NoReq]}, OpenChannels, {100})
    /\ analysis \in {NewAnalyzer(messages) : messages \in ChainLists}
    /\ call \in {[fn |-> "none", args |-> q, result |-> None] : q \in ChainReqs}

\* run_analysis from `analyzer = MessageAnalyzer(messages)` to the list the
\* filters leave.
CallRunAnalysisFilters ==
    Returned("run_analysis", Some(CliFiltered(call.args, analysis.messages, Now)))

ChainNext == CallRunAnalysisFilters

ChainSpec == ChainInit /\ [][ChainNext]_vars

\* C25: the list the command line's filters leave, applied in sequence, is
\* within the result of each requested filter applied alone to the fetched
\* records; once a requested filter keeps no record the final list is empty.
C25_ChainWithinEachFilter ==
    call.fn = "run_analysis" =>
        LET q == call.args
            final == Range(call.result[1])
            alone == <<IF q.filter_type # None
                       THEN Some(FilterByMediaType(analysis.messages, q.filter_type[1], None))
                       ELSE None,
                       IF q.keyword # None
                       THEN Some(FilterByKeyword(analysis.messages, q.keyword[1], FALSE, None))
                       ELSE None,
                       IF TruthyInt(q.days)
                       THEN Some(FilterByDateRange(analysis.messages, None, None, q.days,
                                                   Now, None))
                       ELSE None>>
        IN \A i \in 1..3 :
               alone[i] # None =>
                   /\ final \subseteq Range(alone[i][1])
                   /\ alone[i][1] = <<>> => final = {}

\* ------------------------------------------------------ the web login state

\* Clients the manager creates in one history.
MaxClients == 2

\* Phone numbers typed into the login form.
Phones == {"+1", "+2"}

\* TelegramClient(session_name, ...) followed by connect(): a client on the
\* session file of `phone`, authorized when that file holds a key.
NewClient(phone, connected, files) ==
    [session |-> phone, connected |-> connected, authorized |-> phone \in files,
     needs_password |-> FALSE]

\* `if self.client.is_connected(): await self.client.disconnect()`
Disconnect(clients, client) ==
    IF client = None THEN clients
    ELSE [clients EXCEPT ![client[1]].connected = FALSE]

\* The assignments `self.client = None ... self.user_info = None` that
\* reset, _logout_async and logout share.
Cleared(m) ==
    [m EXCEPT !.client = None, !.fetcher = None, !.phone = None,
              !.phone_code_hash = None, !.is_logged_in = FALSE, !.user_info = None]

\* The fields _send_code_async, _verify_code_async and
\* _verify_password_async set once the client is authorized: the user, and
\* a new TelegramFetcher on the manager's client.
LoggedIn(m) ==
    [m EXCEPT !.is_logged_in = TRUE,
              !.user_info = Some([phone |-> m.clients[m.client[1]].session]),
              !.fetcher = Some([client |-> m.client[1]])]

\* client.sign_in has succeeded: the client is authorized and its session
\* file holds the key.
SignedIn(m) ==
    LET c == m.client[1] IN
    [m EXCEPT !.clients[c].authorized = TRUE,
              !.files = @ \cup {m.clients[c].session},
              !.phone_code_hash = None]

\* The manager's fields are all this action changes, but for task_progress.
OnlyManager ==
    UNCHANGED <<call, analysis, config, fetcher, pc, req, fargs, source, script,
                delivered, locals, fetch_end, returned, outcome>>

\* TelegramManager.send_code(phone): the old client is disconnected and
\* dropped, a new one is created and connected; an authorized session logs
\* in at once, otherwise the code is requested.  Any exception (connect or
\* send_code_request) ends in reset().
SendCode(phone, answer) ==
    /\ Len(manager.clients) < MaxClients
    /\ LET dropped == [manager EXCEPT !.phone = Some(phone),
                                      !.clients = Disconnect(@, manager.client)]
           id == Len(manager.clients) + 1
           with(connected) ==
               [dropped EXCEPT !.clients = Append(@, NewClient(phone, connected,
                                                                manager.files)),
                               !.client = Some(id)]
       IN IF answer = "connect_failed"
          THEN /\ manager' = Cleared(with(FALSE))
               /\ task_progress' = IdleProgress
          ELSE IF phone \in manager.files
          THEN /\ manager' = LoggedIn(with(TRUE))
               /\ UNCHANGED task_progress
          ELSE IF answer = "request_failed"
          THEN /\ manager' = Cleared([with(TRUE) EXCEPT !.clients[id].connected = FALSE])
               /\ task_progress' = IdleProgress
          ELSE /\ manager' = [with(TRUE) EXCEPT !.phone_code_hash = Some("hash")]
               /\ UNCHANGED task_progress
    /\ OnlyManager

\* The route /api/verify_code with TelegramManager.verify_code(code), for
\* each answer sign_in can give; an account that has asked for its password
\* asks for it again.
VerifyCode(answer) ==
    /\ manager.client # None
    /\ manager.phone_code_hash # None
    /\ manager' =
           IF ~manager.clients[manager.client[1]].connected THEN manager
           ELSE IF answer = "ok" /\ ~manager.clients[manager.client[1]].needs_password
           THEN LoggedIn(SignedIn(manager))
           ELSE IF answer \in {"ok", "password_needed"}
           THEN [manager EXCEPT !.clients[manager.client[1]].needs_password = TRUE]
           ELSE IF answer = "expired" THEN [manager EXCEPT !.phone_code_hash = None]
           ELSE manager
    /\ UNCHANGED task_progress
    /\ OnlyManager

\* The route /api/verify_password with TelegramManager.verify_password: the
\* password is accepted once the code was, and any exception leaves the
\* manager as it is.
VerifyPassword(answer) ==
    /\ manager.client # None
    /\ manager' =
           IF answer = "ok" /\ manager.clients[manager.client[1]].needs_password
              /\ manager.clients[manager.client[1]].connected
           THEN LoggedIn(SignedIn(manager))
           ELSE manager
    /\ UNCHANGED task_progress
    /\ OnlyManager

\* TelegramManager.logout(delete_session)
Logout(delete_session) ==
    /\ manager' =
           [Cleared(manager) EXCEPT
               !.clients = Disconnect(@, manager.client),
               !.files = IF delete_session /\ manager.phone # None
                         THEN @ \ {manager.phone[1]} ELSE @]
    /\ UNCHANGED task_progress
    /\ OnlyManager

\* The route /api/progress: task_progress, its data without all_messages.
GetProgress(progress) ==
    IF progress.data # None /\ "all_messages" \in DOMAIN progress.data[1]
    THEN [progress EXCEPT !.data =
             Some([k \in DOMAIN progress.data[1] \ {"all_messages"} |-> progress.data[1][k]])]
    ELSE progress

\* The route /api/export gets past its first test.
ExportAllowed(progress) == progress.status = "completed" /\ progress.data # None

\* What an export leaves when .isoformat() or .strftime() is called on a
\* value that has no such method.
AttributeError == [success |-> FALSE, error |-> "AttributeError"]

\* Exporter._serialize_message: None when .isoformat() raises.
SerializeMessage(msg) ==
    IF msg.date.ty = "datetime" THEN Some([msg EXCEPT !.date = IsoFormat(@)]) ELSE None

\* The date_range handling of export_to_json: None when .isoformat() raises.
SerializeStats(stats) ==
    IF "date_range" \notin DOMAIN stats THEN Some(stats)
    ELSE LET date_range == stats.date_range
             bad(o) == o # None /\ o[1].ty # "datetime"
         IN IF bad(date_range.start) \/ bad(date_range.end) THEN None
            ELSE Some(StatsToIso(stats))

\* Exporter.export_to_json(messages, include_stats=True, stats=stats)
ExportToJson(data, stats) ==
    IF \E i \in DOMAIN data : SerializeMessage(data[i]) = None THEN AttributeError
    ELSE IF SerializeStats(stats) = None THEN AttributeError
    ELSE [success |-> TRUE,
          file |-> [messages |-> [i \in DOMAIN data |-> SerializeMessage(data[i])[1]],
                    total_messages |-> Len(data),
                    statistics |-> SerializeStats(stats)[1]]]

\* Exporter.export_to_csv(messages): a row per record, its date through
\* .strftime().
ExportToCsv(data) ==
    IF \E i \in DOMAIN data : data[i].date.ty # "datetime" THEN AttributeError
    ELSE [success |-> TRUE,
          file |-> [i \in DOMAIN data |->
                       [rank |-> i, id |-> data[i].id, date |-> IsoFormat(data[i].date),
                        total_reactions |-> data[i].total_reactions]]]

\* The route /api/export for the task_progress of the moment.
ExportData(progress, format) ==
    IF ~ExportAllowed(progress) THEN [success |-> FALSE, error |-> "no_data"]
    ELSE IF format = "json"
    THEN ExportToJson(progress.data[1].all_messages, progress.data[1].stats)
    ELSE IF format = "csv" THEN ExportToCsv(progress.data[1].all_messages)
    ELSE [success |-> FALSE, error |-> "format"]

ExportRoute(format) ==
    /\ call' = [fn |-> "export_data",
                args |-> [format |-> format, status |-> task_progress.status],
                result |-> Some(ExportData(task_progress, format))]
    /\ UNCHANGED <<manager, analysis, config, fetcher, task_progress, pc, req, fargs, source,
                   script, delivered, locals, fetch_end, returned, outcome>>

\* The route /api/analyze: start_analysis for a logged-in manager.
AnalyzeRoute ==
    /\ manager.is_logged_in
    /\ manager.fetcher # None
    /\ Start(1)

SessionInit ==
    InitWith({Single(WebReq("alpha", 0, 5, TRUE, "reactions", <<>>))}, OpenChannels, {2})

SessionNext ==
    \/ \E phone \in Phones, answer \in {"ok", "connect_failed", "request_failed"} :
           SendCode(phone, answer)
    \/ \E answer \in {"ok", "password_needed", "invalid", "expired"} : VerifyCode(answer)
    \/ \E answer \in {"ok", "wrong"} : VerifyPassword(answer)
    \/ \E delete_session \in BOOLEAN : Logout(delete_session)
    \/ AnalyzeRoute
    \/ \E format \in {"json", "csv", "xlsx"} : ExportRoute(format)
    \/ Begin(1)
    \/ ResolveFail(1)
    \/ ResolveOk(1)
    \/ Deliver(1, WebShapes, MaxStreamWeb)
    \/ BatchWake(1)
    \/ Exhaust(1)
    \/ Flood(1)
    \/ FloodWake(1)
    \/ TransportError(1)

SessionSpec == SessionInit /\ [][SessionNext]_vars

\* C26: whenever is_logged_in is true, fetcher is set and fetcher.client is
\* the manager's current client, which is connected and authorized.
C26_LoggedInHasLiveFetcher ==
    manager.is_logged_in =>
        /\ manager.fetcher # None
        /\ manager.client # None
        /\ manager.fetcher[1].client = manager.client[1]
        /\ manager.clients[manager.client[1]].connected
        /\ manager.clients[manager.client[1]].authorized

\* C30: after a logout the task state is idle with no data: the progress
\* endpoint returns no result and an export is refused.
C30_LogoutDropsResult ==
    [][(\E delete_session \in BOOLEAN : Logout(delete_session)) =>
           /\ task_progress' = IdleProgress
           /\ GetProgress(task_progress').data = None
           /\ ~ExportAllowed(task_progress')]_vars

\* C27: an export in json or csv format requested once the web analysis is
\* 'completed' succeeds: every date reaches the exporter as a date value and
\* is converted to a string exactly once.
C27_ExportAfterCompleted ==
    (/\ call.fn = "export_data"
     /\ call.args.status = "completed"
     /\ call.args.format \in {"json", "csv"})
        => call.result[1].success

\* ------------------------------------------------- selecting custom emojis

\* document ids of the custom emojis of a channel.
CustomIds == {7, 8, 12}

\* Messages with one custom emoji as their reaction, or a thumbs-up.
CustomShapes ==
    {Shape(RecentTick, Some(<<CustomEmoji(id, 4)>>), None, Some(10), None) : id \in CustomIds}
    \cup {Shape(RecentTick, Some(<<Emoji(ThumbsUp, 2)>>), None, Some(10), None)}

CustomLists ==
    {FetchAll(s, FetchEverything, DefaultConfig(100), ChannelInfoOf(EntityOf("alpha"))) :
        s \in [1..2 -> CustomShapes]}

\* The emojis a request selects: one custom emoji by its name, two of them,
\* or the thumbs-up.
CustomTargets ==
    {<<CustomEmojiName(id)>> : id \in CustomIds}
    \cup {<<CustomEmojiName(7), CustomEmojiName(8)>>, <<ThumbsUp>>}

CustomInit ==
    /\ InitRuns({[r \in Runs |-> NoReq]}, OpenChannels, {100})
    /\ analysis = NewAnalyzer(<<>>)
    /\ call \in {[fn |-> "none", args |-> [emojis |-> emojis, messages |-> messages],
                  result |-> None] : emojis \in CustomTargets, messages \in CustomLists}

\* _sort_by_emojis(messages, emojis)
CallSortBySelectedEmojis ==
    Returned("_sort_by_emojis", SortByEmojis(call.args.messages, call.args.emojis))

CustomNext == CallSortBySelectedEmojis

CustomSpec == CustomInit /\ [][CustomNext]_vars

\* The document ids whose custom emojis are among `emojis`.
IdsNamed(emojis) == {id \in CustomIds : CustomEmojiName(id) \in Range(emojis)}

\* C28: when the selected emojis are custom emojis only, a message all of
\* whose reactions are custom emojis of other document ids gets a
\* selected_emoji_count of 0.
C28_OtherCustomEmojiNotCounted ==
    (/\ call.fn = "_sort_by_emojis"
     /\ \A i \in DOMAIN call.args.emojis :
            \E id \in CustomIds : call.args.emojis[i] = CustomEmojiName(id))
        => \A i \in DOMAIN call.result[1] :
               LET m == call.result[1][i] IN
               (\A k \in DOMAIN m.reactions :
                    \E id \in CustomIds \ IdsNamed(call.args.emojis) :
                        m.reactions[k].emoji = CustomEmojiName(id))
                   => m.selected_emoji_count = Some(0)

\* ------------------------------------------------ the result of a web analysis

\* Requests for each sort mode of the web form.
ResultReqs ==
    {WebReq("alpha", 0, 0, FALSE, sort_by, <<>>) : sort_by \in {"reactions", "views", "engagement"}}
    \cup {WebReq("alpha", 0, 0, FALSE, "views", <<ThumbsUp>>)}

ResultInit ==
    /\ InitRuns({[r \in Runs |-> NoReq]}, OpenChannels, {100})
    /\ analysis = NewAnalyzer(<<>>)
    /\ call \in {[fn |-> "none", args |-> [req |-> q, messages |-> messages],
                  result |-> None] : q \in ResultReqs, messages \in FetchedLists}

\* _analyze_async from the return of fetch_messages to the task_progress it
\* assigns.
CallAnalyzeFetched ==
    Returned("_analyze_async",
             WebResult(call.args.req, call.args.messages, ChannelInfoOf(EntityOf("alpha"))))

ResultNext == CallAnalyzeFetched

ResultSpec == ResultInit /\ [][ResultNext]_vars

\* C29: in a completed web analysis, whatever the sort mode, the summary
\* counts the records of the ranked list: stats.total_messages = total_count.
C29_SummaryCountsRankedList ==
    (call.fn = "_analyze_async" /\ call.result[1].status = "completed") =>
        LET data == call.result[1].data[1] IN
        /\ data.total_count = Len(data.all_messages)
        /\ data.stats.total_messages = data.total_count

====
